---- MODULE Spec2Model ----
(***************************************************************************)
(* State-machine model of the GLP Papers archive browser ("witness"):      *)
(* the two fetch hooks (useArchive, useArchiveFile) and the document       *)
(* metadata pipeline of utils/manifestUtils.ts (flattening, year           *)
(* extraction, folder tree, tag tables).                                   *)
(*                                                                         *)
(* Program strings are modelled as sequences of one-character strings, so  *)
(* that startsWith / substring / split / join / toLowerCase are computed   *)
(* as the code computes them.  null is the value Null, NaN the value NaN.  *)
(***************************************************************************)
EXTENDS Integers, Sequences, FiniteSets, TLC

VARIABLES
  \* useArchiveFile (one mounted Viewer)
  filePath, content, loading, error, fetches,
  \* useArchive
  manifest, mLoading, mError, mPc,
  \* the metadata pipeline applied to one input: the manifest.json read, the
  \* browser's time zone, the call reached, and each function's result
  rawManifest, tzWest, pc, documents, docStats, folderTree, topTags, topTagsD,
  documentTypes,
  \* the document-store provider's folder tree, and the filter and relatedness
  \* calls on a collection: their arguments and results
  folderTreeD, criteria, filtered, refiltered, browsed, target, relatedLimit, related,
  \* the text renderer applied to one file: the text, the call reached, and
  \* each function's result
  rawText, tpc, stripped, strippedV1, translated, processed,
  \* the Browse page: its filter state, the address bar's query parameters,
  \* the expanded folders and the localStorage entry that keeps them
  searchQuery, selectedTags, selectedTypes, searchParams, expandedFolders,
  localStorage,
  \* the 'documents' collection written by scripts/migrate-to-firebase.mjs
  storedDocs

fileVars == <<filePath, content, loading, error, fetches>>
archiveVars == <<manifest, mLoading, mError, mPc>>
pipeVars ==
  <<rawManifest, tzWest, pc, documents, docStats, folderTree, topTags, topTagsD,
    documentTypes>>

queryVars ==
  <<folderTreeD, criteria, filtered, refiltered, browsed, target, relatedLimit, related>>
textVars == <<rawText, tpc, stripped, strippedV1, translated, processed>>
browseVars ==
  <<searchQuery, selectedTags, selectedTypes, searchParams, expandedFolders,
    localStorage>>
storeVars == <<storedDocs>>

Null == "null"

(***************************************************************************)
(* Bounds of the model.                                                    *)
(***************************************************************************)
\* number of times the effect of useArchiveFile runs (mount + navigations)
MaxFetches == 3
\* documents in a collection handed to buildFolderTreeFromDocuments
MaxTreeDocs == 3
\* documents in a manifest handed to flattenDocuments
MaxNormDocs == 2
\* entries of a manifest's all_tags table
MaxTags == 3
\* folders of the manifest.json served to useArchive
MaxArchiveFolders == 2
\* tag occurrences in a document collection handed to getTopTagsFromDocuments
MaxTagOccurrences == 3
MaxTableDocs == 3

(***************************************************************************)
(* JavaScript values and string primitives                                 *)
(***************************************************************************)
\* number | NaN | null, as one record shape so that values compare
JsNum(n) == [kind |-> "num", val |-> n]
JsNaN == [kind |-> "nan", val |-> 0]
JsNull == [kind |-> "null", val |-> 0]

\* a null string field: a one-element sequence that is no program string
NoStr == <<"null">>

DigitChars == <<"0", "1", "2", "3", "4", "5", "6", "7", "8", "9">>
Digits == {DigitChars[i] : i \in 1..10}
DigitVal(c) == (CHOOSE i \in 1..10 : DigitChars[i] = c) - 1

\* String.prototype.startsWith
StartsWith(s, p) == Len(s) >= Len(p) /\ SubSeq(s, 1, Len(p)) = p
\* String.prototype.substring(n) / slice(n)
Substring(s, n) == SubSeq(s, n + 1, Len(s))

\* String.prototype.split('/')
Split(s) ==
  LET RECURSIVE go(_, _, _)
      go(i, cur, acc) ==
        IF i > Len(s) THEN Append(acc, cur)
        ELSE IF s[i] = "/" THEN go(i + 1, <<>>, Append(acc, cur))
        ELSE go(i + 1, Append(cur, s[i]), acc)
  IN go(1, <<>>, <<>>)

\* Array.prototype.join('/')
RECURSIVE Join(_)
Join(parts) ==
  IF Len(parts) = 0 THEN <<>>
  ELSE IF Len(parts) = 1 THEN parts[1]
  ELSE parts[1] \o <<"/">> \o Join(Tail(parts))

\* parseInt(s): skips leading blanks, takes an optional sign and the longest
\* run of digits; NaN when there is no digit
ParseInt(s) ==
  LET RECURSIVE skip(_)
      skip(i) == IF i <= Len(s) /\ s[i] = " " THEN skip(i + 1) ELSE i
      start == skip(1)
      signed == start <= Len(s) /\ s[start] \in {"-", "+"}
      first == IF signed THEN start + 1 ELSE start
      RECURSIVE num(_, _)
      num(i, acc) ==
        IF i <= Len(s) /\ s[i] \in Digits
        THEN num(i + 1, 10 * acc + DigitVal(s[i])) ELSE acc
  IN IF first > Len(s) \/ s[first] \notin Digits THEN JsNaN
     ELSE IF signed /\ s[start] = "-" THEN JsNum(0 - num(first, 0))
     ELSE JsNum(num(first, 0))

AllDigits(s) == \A i \in 1..Len(s) : s[i] \in Digits

\* new Date(s).getFullYear(), isNaN(getTime()) giving null.  west: the
\* browser's time zone is west of UTC.  Date-only ISO forms (YYYY,
\* YYYY-MM-DD) are UTC midnight, and getFullYear is local time, so 1 January
\* reads as the year before in a western zone.  A string without a digit
\* is an Invalid Date; so is an 8-digit run (the engines read it as a year
\* beyond the time range).  Other strings are engine-specific and are not
\* among the inputs.
DateYear(s, west) ==
  IF Len(s) = 4 /\ AllDigits(s)
  THEN JsNum(ParseInt(s).val - (IF west THEN 1 ELSE 0))
  ELSE IF /\ Len(s) = 10 /\ s[5] = "-" /\ s[8] = "-"
          /\ AllDigits(SubSeq(s, 1, 4)) /\ AllDigits(SubSeq(s, 6, 7))
          /\ AllDigits(SubSeq(s, 9, 10))
          /\ ParseInt(SubSeq(s, 6, 7)).val \in 1..12
          /\ ParseInt(SubSeq(s, 9, 10)).val \in 1..28
  THEN JsNum(ParseInt(SubSeq(s, 1, 4)).val
             - (IF west /\ SubSeq(s, 6, 10) = <<"0", "1", "-", "0", "1">>
                THEN 1 ELSE 0))
  ELSE JsNull

(***************************************************************************)
(* Document normalizer: utils/manifestUtils.ts                             *)
(***************************************************************************)
YearInRange(y) == y.kind = "num" /\ y.val >= 1900 /\ y.val <= 2100

TwoDigitYear(y) ==
  IF y.kind # "num" THEN JsNaN
  ELSE IF y.val <= 30 THEN JsNum(2000 + y.val) ELSE JsNum(1900 + y.val)

\* extractYear(dateInfo) with dateInfo.document_date = d
extractYear(d, west) ==
  IF d = NoStr \/ d = <<>> THEN JsNull
  ELSE IF Len(d) = 8 /\ YearInRange(ParseInt(SubSeq(d, 1, 4)))
  THEN ParseInt(SubSeq(d, 1, 4))
  ELSE IF Len(d) = 4 /\ YearInRange(ParseInt(d)) THEN ParseInt(d)
  ELSE IF Len(d) = 2 THEN TwoDigitYear(ParseInt(d))
  ELSE DateYear(d, west)

InputPrefix == <<"i", "n", "p", "u", "t", "/">>
StripInput(s) == IF StartsWith(s, InputPrefix) THEN Substring(s, 6) ELSE s
ArchivePrefix == <<"/", "a", "r", "c", "h", "i", "v", "e", "/">>

\* documentToFlatDocument(metadata, folderPath)
documentToFlatDocument(metadata, folderPath, west) ==
  [filename |-> metadata.file_name,
   path |-> StripInput(metadata.file_path),
   folderPath |-> folderPath,
   date |-> metadata.document_date,
   year |-> extractYear(metadata.document_date, west),
   dateConfidence |-> metadata.date_confidence,
   tags |-> metadata.tags,
   type |-> metadata.primary_type,
   typeConfidence |-> metadata.type_confidence,
   summary |-> metadata.summary,
   textFilePath |-> ArchivePrefix \o StripInput(metadata.file_path)]

\* flattenDocuments(manifest): folders in Object.entries order
RECURSIVE FlattenFolders(_, _)
FlattenFolders(folders, west) ==
  IF Len(folders) = 0 THEN <<>>
  ELSE LET f == folders[1]
           clean == StripInput(f.path)
       IN [i \in 1..Len(f.documents) |->
             documentToFlatDocument(f.documents[i], clean, west)]
          \o FlattenFolders(Tail(folders), west)

flattenDocuments(m, west) == FlattenFolders(m.folders, west)

(***************************************************************************)
(* Folder tree: buildFolderTreeFromDocuments                               *)
(* A Map is a sequence of entries in insertion order; a node's children    *)
(* array holds references, modelled as the children's paths, until         *)
(* sortTree copies the nodes into the returned tree.                       *)
(***************************************************************************)
LowerLetters ==
  <<"a", "b", "c", "d", "e", "f", "g", "h", "i", "j", "k", "l", "m",
    "n", "o", "p", "q", "r", "s", "t", "u", "v", "w", "x", "y", "z">>
\* collation order of the characters of folder names: blank, punctuation,
\* digits, letters
CollationOrder == <<" ", "-", ".">> \o DigitChars \o LowerLetters
CharRank(c) == CHOOSE i \in 1..Len(CollationOrder) : CollationOrder[i] = c

\* a.localeCompare(b) for names over the characters above: -1, 0 or 1
RECURSIVE LocaleCompare(_, _)
LocaleCompare(a, b) ==
  IF Len(a) = 0 /\ Len(b) = 0 THEN 0
  ELSE IF Len(a) = 0 THEN -1
  ELSE IF Len(b) = 0 THEN 1
  ELSE IF CharRank(a[1]) < CharRank(b[1]) THEN -1
  ELSE IF CharRank(a[1]) > CharRank(b[1]) THEN 1
  ELSE LocaleCompare(Tail(a), Tail(b))

HasPath(map, p) == \E i \in 1..Len(map) : map[i].path = p
EntryOf(map, p) == map[CHOOSE i \in 1..Len(map) : map[i].path = p]

\* counts[key] = (counts[key] ?? 0) + n on a Map or Record kept as a sequence
\* of entries in insertion order
CountKey(counts, key, n) ==
  IF \E i \in 1..Len(counts) : counts[i].key = key
  THEN [i \in 1..Len(counts) |->
          IF counts[i].key = key
          THEN [counts[i] EXCEPT !.count = @ + n] ELSE counts[i]]
  ELSE Append(counts, [key |-> key, count |-> n])

\* documents.forEach: folderCounts.set(doc.folderPath, ... + 1)
RECURSIVE FolderCounts(_, _)
FolderCounts(docs, counts) ==
  IF Len(docs) = 0 THEN counts
  ELSE FolderCounts(Tail(docs), CountKey(counts, docs[1].folderPath, 1))

NewNode(name, path, count) ==
  [name |-> name, path |-> path, children |-> <<>>, documentCount |-> count]

\* the loop stopping one prefix early (i < parts.length - 1)
RECURSIVE AddParentsSkipNearest(_, _, _)
AddParentsSkipNearest(map, parts, i) ==
  IF i >= Len(parts) - 1 THEN map
  ELSE LET parentPath == Join(SubSeq(parts, 1, i))
       IN AddParentsSkipNearest(IF HasPath(map, parentPath) THEN map
                                ELSE Append(map, NewNode(parts[i], parentPath, 0)),
                                parts, i + 1)

\* the for loop creating the intermediate parents parts.slice(0, i)
RECURSIVE AddParents(_, _, _)
AddParents(map, parts, i) ==
  IF i >= Len(parts) THEN map
  ELSE LET parentPath == Join(SubSeq(parts, 1, i))
       IN AddParents(IF HasPath(map, parentPath) THEN map
                     ELSE Append(map, NewNode(parts[i], parentPath, 0)),
                     parts, i + 1)

\* one iteration of folderCounts.forEach: the folder's own node, if the map
\* has none for its path yet, then its parents
AddFolder(map, folderPath, count) ==
  LET parts == Split(folderPath)
      own == IF HasPath(map, folderPath) THEN map
             ELSE Append(map, NewNode(parts[Len(parts)], folderPath, count))
  IN AddParents(own, parts, 1)

RECURSIVE AddFolders(_, _)
AddFolders(map, counts) ==
  IF Len(counts) = 0 THEN map
  ELSE AddFolders(AddFolder(map, counts[1].key, counts[1].count), Tail(counts))

\* parentNode.children.push(node) unless it is there already
PushChild(map, parentPath, childPath) ==
  [i \in 1..Len(map) |->
     IF map[i].path = parentPath
        /\ ~\E j \in 1..Len(map[i].children) : map[i].children[j] = childPath
     THEN [map[i] EXCEPT !.children = Append(@, childPath)]
     ELSE map[i]]

\* second pass: nodeMap.forEach linking each node to its parent
RECURSIVE LinkChildren(_, _)
LinkChildren(map, k) ==
  IF k > Len(map) THEN map
  ELSE LET parts == Split(map[k].path)
           parentPath == Join(SubSeq(parts, 1, Len(parts) - 1))
       IN LinkChildren(IF Len(parts) > 1 /\ HasPath(map, parentPath)
                       THEN PushChild(map, parentPath, map[k].path)
                       ELSE map,
                       k + 1)

\* Array.prototype.sort with (a, b) => a.name.localeCompare(b.name): stable
RECURSIVE InsertByName(_, _)
InsertByName(sorted, node) ==
  IF Len(sorted) = 0 THEN <<node>>
  ELSE IF LocaleCompare(node.name, sorted[Len(sorted)].name) >= 0
  THEN Append(sorted, node)
  ELSE Append(InsertByName(SubSeq(sorted, 1, Len(sorted) - 1), node),
              sorted[Len(sorted)])

RECURSIVE SortByName(_)
SortByName(nodes) ==
  IF Len(nodes) = 0 THEN <<>>
  ELSE InsertByName(SortByName(SubSeq(nodes, 1, Len(nodes) - 1)),
                    nodes[Len(nodes)])

\* sortTree(nodes): sort, then copy each node with its children sorted
RECURSIVE sortTree(_, _)
sortTree(paths, map) ==
  LET nodes == SortByName([i \in 1..Len(paths) |-> EntryOf(map, paths[i])])
  IN [i \in 1..Len(nodes) |->
        [name |-> nodes[i].name,
         path |-> nodes[i].path,
         children |-> sortTree(nodes[i].children, map),
         documentCount |-> nodes[i].documentCount,
         isExpanded |-> FALSE]]

\* roots: the nodes whose path holds no '/'
RootPaths(map) ==
  LET RECURSIVE go(_)
      go(k) == IF k > Len(map) THEN <<>>
               ELSE IF \E i \in 1..Len(map[k].path) : map[k].path[i] = "/"
               THEN go(k + 1)
               ELSE <<map[k].path>> \o go(k + 1)
  IN go(1)

buildFolderTreeFromDocuments(docs) ==
  LET nodeMap == LinkChildren(AddFolders(<<>>, FolderCounts(docs, <<>>)), 1)
  IN sortTree(RootPaths(nodeMap), nodeMap)

(***************************************************************************)
(* Statistics of a document collection: calculateStatsFromDocuments        *)
(***************************************************************************)
\* an insertion that puts an entry before the entries of equal count
RECURSIVE InsertBeforeTies(_, _)
InsertBeforeTies(sorted, e) ==
  IF Len(sorted) = 0 THEN <<e>>
  ELSE IF sorted[Len(sorted)].count > e.count THEN Append(sorted, e)
  ELSE Append(InsertBeforeTies(SubSeq(sorted, 1, Len(sorted) - 1), e),
              sorted[Len(sorted)])

\* Array.prototype.sort with (a, b) => b.count - a.count: stable
RECURSIVE InsertByCount(_, _)
InsertByCount(sorted, e) ==
  IF Len(sorted) = 0 THEN <<e>>
  ELSE IF sorted[Len(sorted)].count >= e.count THEN Append(sorted, e)
  ELSE Append(InsertByCount(SubSeq(sorted, 1, Len(sorted) - 1), e),
              sorted[Len(sorted)])

RECURSIVE SortByCountDesc(_)
SortByCountDesc(es) ==
  IF Len(es) = 0 THEN <<>>
  ELSE InsertByCount(SortByCountDesc(SubSeq(es, 1, Len(es) - 1)), es[Len(es)])

RECURSIVE CountAll(_, _)
CountAll(keys, counts) ==
  IF Len(keys) = 0 THEN counts
  ELSE CountAll(Tail(keys), CountKey(counts, keys[1], 1))

\* a < b on numbers, false when either is NaN
JsLess(a, b) == a.kind = "num" /\ b.kind = "num" /\ a.val < b.val

\* the documents.forEach of calculateStatsFromDocuments
RECURSIVE StatsLoop(_, _)
StatsLoop(docs, acc) ==
  IF Len(docs) = 0 THEN acc
  ELSE LET doc == docs[1]
           dated == doc.year # JsNull
       IN StatsLoop(Tail(docs),
            [tagCounts |-> CountAll(doc.tags, acc.tagCounts),
             typeCounts |-> CountKey(acc.typeCounts, doc.type, 1),
             folderCounts |-> CountKey(acc.folderCounts, doc.folderPath, 1),
             datedCount |-> IF dated THEN acc.datedCount + 1 ELSE acc.datedCount,
             earliest |-> IF dated /\ (acc.earliest = JsNull \/ JsLess(doc.year, acc.earliest))
                          THEN doc.year ELSE acc.earliest,
             latest |-> IF dated /\ (acc.latest = JsNull \/ JsLess(acc.latest, doc.year))
                        THEN doc.year ELSE acc.latest])

calculateStatsFromDocuments(docs) ==
  LET acc == StatsLoop(docs, [tagCounts |-> <<>>, typeCounts |-> <<>>,
                              folderCounts |-> <<>>, datedCount |-> 0,
                              earliest |-> JsNull, latest |-> JsNull])
  IN [totalDocuments |-> Len(docs),
      totalFolders |-> Len(acc.folderCounts),
      documentTypes |-> acc.typeCounts,
      topTags |-> SortByCountDesc(acc.tagCounts),
      earliest |-> IF acc.earliest = JsNull THEN JsNum(0) ELSE acc.earliest,
      latest |-> IF acc.latest = JsNull THEN JsNum(0) ELSE acc.latest,
      documents_with_dates |-> acc.datedCount,
      \* (datedCount / documents.length) * 100, kept as a fraction
      coverage_percentage |->
        IF Len(docs) > 0 THEN [num |-> acc.datedCount * 100, den |-> Len(docs)]
        ELSE [num |-> 0, den |-> 1],
      documentsPerFolder |-> acc.folderCounts]

(***************************************************************************)
(* Tag tables: getTopTags, getTopTagsFromDocuments                         *)
(***************************************************************************)
UpperLetters ==
  <<"A", "B", "C", "D", "E", "F", "G", "H", "I", "J", "K", "L", "M",
    "N", "O", "P", "Q", "R", "S", "T", "U", "V", "W", "X", "Y", "Z">>

\* String.prototype.toLowerCase
ToLowerCase(s) ==
  [i \in 1..Len(s) |->
     IF \E k \in 1..26 : UpperLetters[k] = s[i]
     THEN LowerLetters[CHOOSE k \in 1..26 : UpperLetters[k] = s[i]]
     ELSE s[i]]

\* tag.replace(/[a-z]/g, '').length
NonLowerLength(s) ==
  Cardinality({i \in 1..Len(s) : ~\E k \in 1..26 : LowerLetters[k] = s[i]})

\* the label kept when tag meets an entry whose label is existingTag
PreferredTag(tag, existingTag) ==
  IF NonLowerLength(tag) >= NonLowerLength(existingTag) THEN tag ELSE existingTag

\* the entry's count overwritten instead of added to
MergedCountOverwrite(existingCount, count) == count

\* the count of an entry that held existingCount after count more are seen
MergedCount(existingCount, count) == existingCount + count

\* one iteration on the Map keyed by the lower-cased tag
MergeTag(map, tag, count) ==
  LET lowerTag == ToLowerCase(tag)
  IN IF \E i \in 1..Len(map) : map[i].key = lowerTag
     THEN [i \in 1..Len(map) |->
             IF map[i].key = lowerTag
             THEN [key |-> lowerTag,
                   originalTag |-> PreferredTag(tag, map[i].originalTag),
                   count |-> MergedCount(map[i].count, count)]
             ELSE map[i]]
     ELSE Append(map, [key |-> lowerTag, originalTag |-> tag, count |-> count])

\* Array.from(map.values()).map(...).sort(...).slice(0, limit)
TagTable(map, limit) ==
  LET sorted == SortByCountDesc([i \in 1..Len(map) |->
                   [tag |-> map[i].originalTag, count |-> map[i].count]])
  IN SubSeq(sorted, 1, IF limit < Len(sorted) THEN limit ELSE Len(sorted))

RECURSIVE MergeEntries(_, _)
MergeEntries(entries, map) ==
  IF Len(entries) = 0 THEN map
  ELSE MergeEntries(Tail(entries), MergeTag(map, entries[1].tag, entries[1].count))

\* getTopTags(manifest, limit) over Object.entries(manifest.metadata.all_tags)
getTopTags(m, limit) == TagTable(MergeEntries(m.all_tags, <<>>), limit)

RECURSIVE MergeDocTags(_, _)
MergeDocTags(tags, map) ==
  IF Len(tags) = 0 THEN map
  ELSE MergeDocTags(Tail(tags), MergeTag(map, tags[1], 1))

RECURSIVE MergeDocs(_, _)
MergeDocs(docs, map) ==
  IF Len(docs) = 0 THEN map
  ELSE MergeDocs(Tail(docs), MergeDocTags(docs[1].tags, map))

getTopTagsFromDocuments(docs, limit) == TagTable(MergeDocs(docs, <<>>), limit)

\* the limit both hooks pass
TopTagsLimit == 20

\* documents.forEach: typeCounts.set(doc.type, ... + 1)
RECURSIVE TypeCounts(_, _)
TypeCounts(docs, counts) ==
  IF Len(docs) = 0 THEN counts
  ELSE TypeCounts(Tail(docs), CountKey(counts, docs[1].type, 1))

\* getDocumentTypeStatsFromDocuments(documents)
getDocumentTypeStatsFromDocuments(docs) ==
  LET counts == TypeCounts(docs, <<>>)
  IN SortByCountDesc([i \in 1..Len(counts) |->
                        [type |-> counts[i].key, count |-> counts[i].count]])

(***************************************************************************)
(* The manifest-based functions: buildFolderTree, getDocumentTypeStats,    *)
(* calculateStats                                                          *)
(***************************************************************************)
RECURSIVE SumDocumentCounts(_)
SumDocumentCounts(folders) ==
  IF Len(folders) = 0 THEN 0
  ELSE folders[1].document_count + SumDocumentCounts(Tail(folders))

\* manifest.json: folders, all_tags and document_types are objects, kept as
\* their Object.entries sequences; the totals are those of the folders
MakeManifest(folders, all_tags, document_types) ==
  [folders |-> folders,
   all_tags |-> all_tags,
   document_types |-> document_types,
   total_documents |-> SumDocumentCounts(folders),
   total_folders |-> Len(folders),
   date_range |->
     [earliest |-> JsNum(0), latest |-> JsNum(0),
      documents_with_dates |->
        LET docs == FlattenFolders(folders, FALSE)
        IN Cardinality({i \in 1..Len(docs) : docs[i].date \notin {NoStr, <<>>}})]]

\* first pass of buildFolderTree over Object.entries(manifest.folders)
RECURSIVE AddManifestFolders(_, _)
AddManifestFolders(map, folders) ==
  IF Len(folders) = 0 THEN map
  ELSE AddManifestFolders(
         AddFolder(map, StripInput(folders[1].path), folders[1].document_count),
         Tail(folders))

buildFolderTree(m) ==
  LET nodeMap == LinkChildren(AddManifestFolders(<<>>, m.folders), 1)
  IN sortTree(RootPaths(nodeMap), nodeMap)

getDocumentTypeStats(m) == SortByCountDesc(m.document_types)

calculateStats(m) ==
  [totalDocuments |-> m.total_documents,
   totalFolders |-> m.total_folders,
   documentTypes |-> m.document_types,
   topTags |-> SortByCountDesc(m.all_tags),
   earliest |-> m.date_range.earliest,
   latest |-> m.date_range.latest,
   documents_with_dates |-> m.date_range.documents_with_dates,
   coverage_percentage |->
     IF m.total_documents > 0
     THEN [num |-> m.date_range.documents_with_dates * 100, den |-> m.total_documents]
     ELSE [num |-> 0, den |-> 1],
   documentsPerFolder |->
     [i \in 1..Len(m.folders) |->
        [key |-> m.folders[i].path, count |-> m.folders[i].document_count]]]

(***************************************************************************)
(* useArchiveFile: hooks/useArchive.ts                                     *)
(***************************************************************************)
\* document paths the viewer can be pointed at
Paths == {"A", "B", "C"}

\* the text the server holds for a path
TextOf(p) == CASE p = "A" -> "text of A"
               [] p = "B" -> "text of B"
               [] OTHER -> "text of C"

FetchFailedMsg == "Failed to fetch file"
NetworkErrorMsg == "NetworkError when attempting to fetch resource"

\* a fetch is in flight while it awaits fetch() or response.text()
InFlight(f) == f.stage \in {"fetch", "text"}

NewFetch(p, fs) ==
  [path |-> p, stage |-> "fetch",
   overlap |-> \E i \in 1..Len(fs) : InFlight(fs[i])]

\* useState initial values and the first run of the effect
FileInit ==
  /\ filePath \in Paths
  /\ content = Null
  /\ loading = TRUE
  /\ error = Null
  /\ fetches = <<NewFetch(filePath, <<>>)>>

FileIdle ==
  /\ filePath = "A"
  /\ content = Null
  /\ loading = TRUE
  /\ error = Null
  /\ fetches = <<>>

SetStage(i, s) == [fetches EXCEPT ![i].stage = s]

\* the filePath prop changes: the effect runs again and starts a new fetch;
\* no state is reset and the earlier fetch keeps running
Navigate(p) ==
  /\ p # filePath
  /\ Len(fetches) < MaxFetches
  /\ filePath' = p
  /\ fetches' = Append(fetches, NewFetch(p, fetches))
  /\ UNCHANGED <<content, loading, error>>

\* fetch() resolves with response.ok: the closure goes on to await text()
FetchOk(i) ==
  /\ fetches[i].stage = "fetch"
  /\ fetches' = SetStage(i, "text")
  /\ UNCHANGED <<filePath, content, loading, error>>

\* the catch and finally blocks of fetchFile
FileCatch(i, msg) ==
  /\ error' = msg
  /\ loading' = FALSE
  /\ fetches' = SetStage(i, "err")
  /\ UNCHANGED <<filePath, content>>

\* fetch() resolves with !response.ok: throw, catch, finally
FetchNotOk(i) ==
  /\ fetches[i].stage = "fetch"
  /\ FileCatch(i, FetchFailedMsg)

\* fetch() rejects (network failure): catch, finally
FetchReject(i) ==
  /\ fetches[i].stage = "fetch"
  /\ FileCatch(i, NetworkErrorMsg)

\* response.text() resolves: setContent(text), finally setLoading(false)
TextOk(i) ==
  /\ fetches[i].stage = "text"
  /\ content' = TextOf(fetches[i].path)
  /\ loading' = FALSE
  /\ fetches' = SetStage(i, "ok")
  /\ UNCHANGED <<filePath, error>>

\* response.text() rejects (body stream fails): catch, finally
TextReject(i) ==
  /\ fetches[i].stage = "text"
  /\ FileCatch(i, NetworkErrorMsg)

FileNext ==
  \/ \E p \in Paths : Navigate(p)
       /\ UNCHANGED <<archiveVars, pipeVars, queryVars, textVars, browseVars, storeVars>>
  \/ \E i \in 1..Len(fetches) : FetchOk(i)
       /\ UNCHANGED <<archiveVars, pipeVars, queryVars, textVars, browseVars, storeVars>>
  \/ \E i \in 1..Len(fetches) : FetchNotOk(i)
       /\ UNCHANGED <<archiveVars, pipeVars, queryVars, textVars, browseVars, storeVars>>
  \/ \E i \in 1..Len(fetches) : FetchReject(i)
       /\ UNCHANGED <<archiveVars, pipeVars, queryVars, textVars, browseVars, storeVars>>
  \/ \E i \in 1..Len(fetches) : TextOk(i)
       /\ UNCHANGED <<archiveVars, pipeVars, queryVars, textVars, browseVars, storeVars>>
  \/ \E i \in 1..Len(fetches) : TextReject(i)
       /\ UNCHANGED <<archiveVars, pipeVars, queryVars, textVars, browseVars, storeVars>>

ArchiveIdle ==
  /\ manifest = <<>>
  /\ mLoading = TRUE
  /\ mError = Null
  /\ mPc = "idle"

vars ==
  <<fileVars, archiveVars, pipeVars, queryVars, textVars, browseVars, storeVars>>

EmptyManifest == MakeManifest(<<>>, <<>>, <<>>)
NoStats == calculateStatsFromDocuments(<<>>)

PipeIdle ==
  /\ rawManifest = EmptyManifest
  /\ tzWest = FALSE
  /\ pc = "idle"
  /\ documents = <<>>
  /\ docStats = NoStats
  /\ folderTree = <<>>
  /\ topTags = <<>>
  /\ topTagsD = <<>>
  /\ documentTypes = <<>>

\* no filter or relatedness call made
NoCriteria ==
  [query |-> <<>>, tags |-> <<>>, types |-> <<>>, dateRange |-> <<>>,
   minConfidence |-> "", folderPath |-> <<>>]

QueryIdle ==
  /\ folderTreeD = <<>>
  /\ criteria = NoCriteria
  /\ filtered = <<>>
  /\ refiltered = <<>>
  /\ browsed = <<>>
  /\ target = <<>>
  /\ relatedLimit = 0
  /\ related = <<>>

\* no file rendered
TextIdle ==
  /\ rawText = <<>>
  /\ tpc = "idle"
  /\ stripped = <<>>
  /\ strippedV1 = <<>>
  /\ translated = <<>>
  /\ processed = <<>>

\* no URL read: every parameter absent
NoParams == [q |-> NoStr, tag |-> NoStr, type |-> NoStr]

\* no Browse page mounted
BrowseIdle ==
  /\ searchQuery = <<>>
  /\ selectedTags = <<>>
  /\ selectedTypes = <<>>
  /\ searchParams = NoParams
  /\ expandedFolders = <<>>
  /\ localStorage = NoStr

\* migration script not run
StoreIdle == storedDocs = <<>>

InitFile == FileInit /\ ArchiveIdle /\ PipeIdle /\ QueryIdle /\ TextIdle
  /\ BrowseIdle /\ StoreIdle

SpecFile == InitFile /\ [][FileNext]_vars

\* what the Viewer renders in its content area (Viewer lines 903-939)
ViewerShowsContent == ~loading /\ error = Null /\ content # Null
ViewerShowsError == error # Null

AllSettled == \A i \in 1..Len(fetches) : ~InFlight(fetches[i])
LastFetch == fetches[Len(fetches)]
NoOverlap == \A i \in 1..Len(fetches) : ~fetches[i].overlap

\* C1: a response for an earlier filePath that arrives after navigation is
\* discarded: once every fetch has settled and the fetch for the current
\* filePath succeeded, content is the current path's response.
C1_StaleResponseDiscarded ==
  (Len(fetches) > 0 /\ AllSettled /\ LastFetch.stage = "ok")
    => content = TextOf(filePath)

\* C2: a fetch failure is scoped to the document that failed: when no two
\* fetches ever overlapped and the fetch for the current filePath succeeded,
\* the viewer shows the current document's content and no error.
C2_ErrorScopedToDocument ==
  (Len(fetches) > 0 /\ AllSettled /\ NoOverlap /\ LastFetch.stage = "ok")
    => (ViewerShowsContent /\ content = TextOf(filePath) /\ ~ViewerShowsError)

(***************************************************************************)
(* Inputs of the pipeline                                                  *)
(***************************************************************************)
SeqsUpTo(S, n) == UNION {[1..k -> S] : k \in 0..n}

\* a DocumentMetadata record of the manifest
RawDoc(file_path, document_date, tags) ==
  [file_path |-> file_path,
   file_name |-> <<"f">>,
   document_date |-> document_date,
   date_confidence |-> "high",
   tags |-> tags,
   primary_type |-> <<"l", "e", "t", "t", "e", "r">>,
   type_confidence |-> "high",
   summary |-> <<"s">>]

\* a FlatDocument as the document store returns it
StoredDoc(path, folderPath) ==
  documentToFlatDocument(RawDoc(path, NoStr, <<>>), folderPath, FALSE)

(***************************************************************************)
(* Folder tree of a document collection                                    *)
(***************************************************************************)
TreeFolderPaths ==
  { <<"a">>, <<"b">>, <<"a", "/", "b">>, <<"a", "/", "c">>,
    <<"b", "/", "a">>, <<"a", "/", "b", "/", "c">>, <<>>, <<"a", "/">>,
    <<"b", "o", "x", "-", "2">>, <<"b", "o", "x", "-", "1", "0">> }

TreeDocs == {StoredDoc(fp \o <<"/", "f">>, fp) : fp \in TreeFolderPaths}

TreeInit ==
  /\ documents \in SeqsUpTo(TreeDocs, MaxTreeDocs)
  /\ pc = "documents"
  /\ rawManifest = EmptyManifest
  /\ tzWest = FALSE
  /\ docStats = NoStats
  /\ folderTree = <<>>
  /\ topTags = <<>>
  /\ topTagsD = <<>>
  /\ documentTypes = <<>>

\* useFirestoreArchive: folderTree = buildFolderTreeFromDocuments(documents)
BuildFolderTreeFromDocuments ==
  /\ pc = "documents"
  /\ folderTree' = buildFolderTreeFromDocuments(documents)
  /\ pc' = "tree"
  /\ UNCHANGED <<rawManifest, tzWest, documents, docStats, topTags, topTagsD, documentTypes>>

TreeNext == BuildFolderTreeFromDocuments
       /\ UNCHANGED <<fileVars, archiveVars, queryVars, textVars, browseVars, storeVars>>

InitTree == TreeInit /\ FileIdle /\ ArchiveIdle /\ QueryIdle /\ TextIdle
  /\ BrowseIdle /\ StoreIdle

SpecTree == InitTree /\ [][TreeNext]_vars

\* the nodes reachable from a list of nodes through children links, each
\* with the path of the node whose children list holds it
RECURSIVE TreeEdges(_, _)
TreeEdges(nodes, parent) ==
  UNION { {[path |-> nodes[i].path, parent |-> parent,
            documentCount |-> nodes[i].documentCount]}
          \cup TreeEdges(nodes[i].children, nodes[i].path)
          : i \in 1..Len(nodes) }

TreeLinks(nodes) ==
  {[path |-> e.path, parent |-> e.parent] : e \in TreeEdges(nodes, NoStr)}

FolderPathsOf(docs) == {docs[i].folderPath : i \in 1..Len(docs)}

\* the '/'-separated prefixes of a folder path, each with its parent prefix
PrefixLinks(P) ==
  LET parts == Split(P)
  IN {[path |-> Join(SubSeq(parts, 1, i)),
       parent |-> IF i = 1 THEN NoStr ELSE Join(SubSeq(parts, 1, i - 1))]
      : i \in 1..Len(parts)}

\* C5: for every folderPath P of a document, the tree holds a node for every
\* '/'-separated prefix of P, P included, the one-segment prefix in the
\* top-level list and every longer one in the children of its parent prefix.
C5_EveryPrefixHasNode ==
  pc = "tree" =>
    \A P \in FolderPathsOf(documents) : PrefixLinks(P) \subseteq TreeLinks(folderTree)

C5_Witness ==
  /\ pc = "tree"
  /\ <<"a", "/", "b", "/", "c">> \in FolderPathsOf(documents)
  /\ <<"a">> \notin FolderPathsOf(documents)
  /\ [path |-> <<"a", "/", "b">>, parent |-> <<"a">>] \in TreeLinks(folderTree)

DocsIn(docs, P) == Cardinality({i \in 1..Len(docs) : docs[i].folderPath = P})

\* C6: every node's documentCount is the number of documents whose
\* folderPath is exactly the node's path, in whatever order the documents
\* are listed.
C6_CountIsOwnDocuments ==
  pc = "tree" =>
    \A e \in TreeEdges(folderTree, NoStr) :
      e.documentCount = DocsIn(documents, e.path)

(***************************************************************************)
(* Normalizer applied to a manifest: flattenDocuments, extractYear, then   *)
(* calculateStatsFromDocuments on the result                               *)
(***************************************************************************)
NormFilePaths ==
  { <<"x">>, <<"y">>, InputPrefix \o <<"x">>, InputPrefix \o <<"y">>,
    InputPrefix \o InputPrefix \o <<"x">> }

\* raw date values: 8-, 4- and 2-character numeric strings around the year
\* bounds, 2-character non-numeric strings, ISO dates, free text, '' and null
DateValues ==
  { <<"1", "9", "9", "7", "0", "8", "2", "1">>,
    <<"1", "9", "0", "0", "0", "1", "0", "1">>,
    <<"2", "1", "0", "0", "1", "2", "3", "1">>,
    <<"1", "8", "9", "9", "1", "2", "3", "1">>,
    <<"2", "1", "0", "1", "0", "1", "0", "1">>,
    <<"1", "9", "9", "7">>, <<"1", "9", "0", "0">>, <<"2", "1", "0", "0">>,
    <<"1", "8", "9", "9">>, <<"2", "1", "0", "1">>, <<"0", "0", "0", "0">>,
    <<"9", "7">>, <<"2", "4">>, <<"3", "0">>, <<"3", "1">>, <<"0", "0">>,
    <<"a", "b">>, <<"x", "y">>,
    <<"1", "9", "9", "7", "-", "0", "8", "-", "2", "1">>,
    <<"1", "8", "9", "9", "-", "0", "1", "-", "0", "1">>,
    <<"n", "o", "t", "-", "a", "-", "d", "a", "t", "e">>,
    <<"a", "b", "c", "d">>, <<"a", "b", "c", "d", "e", "f", "g", "h">>,
    <<>>, NoStr }

PathDocs == {RawDoc(fp, NoStr, <<>>) : fp \in NormFilePaths}
DateDocs == {RawDoc(<<"x">>, d, <<>>) : d \in DateValues}

\* a manifest holding the documents ds, the first k under folder 'input/a'
\* and the rest under folder 'b'
ManifestOf(ds, k) ==
  MakeManifest(
     <<[path |-> InputPrefix \o <<"a">>, documents |-> SubSeq(ds, 1, k),
        document_count |-> k],
       [path |-> <<"b">>, documents |-> SubSeq(ds, k + 1, Len(ds)),
        document_count |-> Len(ds) - k]>>,
     <<>>, <<>>)

NormManifests ==
  {ManifestOf(ds, Len(ds)) : ds \in SeqsUpTo(DateDocs, MaxNormDocs)}
  \cup UNION {{ManifestOf(ds, k) : k \in 0..Len(ds)}
              : ds \in SeqsUpTo(PathDocs, MaxNormDocs)}

NormInit ==
  /\ rawManifest \in NormManifests
  /\ tzWest \in BOOLEAN
  /\ pc = "manifest"
  /\ documents = <<>>
  /\ docStats = NoStats
  /\ folderTree = <<>>
  /\ topTags = <<>>
  /\ topTagsD = <<>>
  /\ documentTypes = <<>>

\* useArchive: documents = flattenDocuments(manifest)
FlattenDocuments ==
  /\ pc = "manifest"
  /\ documents' = flattenDocuments(rawManifest, tzWest)
  /\ pc' = "flat"
  /\ UNCHANGED <<rawManifest, tzWest, docStats, folderTree, topTags, topTagsD, documentTypes>>

CalculateStatsFromDocuments ==
  /\ pc = "flat"
  /\ docStats' = calculateStatsFromDocuments(documents)
  /\ pc' = "stats"
  /\ UNCHANGED <<rawManifest, tzWest, documents, folderTree, topTags, topTagsD, documentTypes>>

\* scripts/migrate-to-firebase.mjs, extractYear(dateStr): an 8- or
\* 4-character value whose year is out of range returns null at once
migrateExtractYear(d, west) ==
  IF d = NoStr \/ d = <<>> THEN JsNull
  ELSE IF Len(d) = 8
  THEN (IF YearInRange(ParseInt(SubSeq(d, 1, 4)))
        THEN ParseInt(SubSeq(d, 1, 4)) ELSE JsNull)
  ELSE IF Len(d) = 4
  THEN (IF YearInRange(ParseInt(d)) THEN ParseInt(d) ELSE JsNull)
  ELSE IF Len(d) = 2 THEN TwoDigitYear(ParseInt(d))
  ELSE DateYear(d, west)

\* the allDocs entries of one folder
migrateFolder(folder, west) ==
  [i \in 1..Len(folder.documents) |->
     [path |-> StripInput(folder.documents[i].file_path),
      folderPath |-> StripInput(folder.path),
      date |-> folder.documents[i].document_date,
      year |-> migrateExtractYear(folder.documents[i].document_date, west)]]

RECURSIVE migrateFolders(_, _)
migrateFolders(folders, west) ==
  IF Len(folders) = 0 THEN <<>>
  ELSE migrateFolder(folders[1], west) \o migrateFolders(Tail(folders), west)

\* the migration script run once on the manifest, in the time zone of the
\* machine that runs it: the documents collection is written
MigrateToFirebase ==
  /\ storedDocs = <<>>
  /\ \E west \in BOOLEAN :
       storedDocs' = migrateFolders(rawManifest.folders, west)
  /\ UNCHANGED pipeVars

NormNext ==
  \/ MigrateToFirebase
       /\ UNCHANGED <<fileVars, archiveVars, queryVars, textVars, browseVars>>
  \/ FlattenDocuments
       /\ UNCHANGED <<fileVars, archiveVars, queryVars, textVars, browseVars, storeVars>>
  \/ CalculateStatsFromDocuments
       /\ UNCHANGED <<fileVars, archiveVars, queryVars, textVars, browseVars, storeVars>>

InitNormalize == NormInit /\ FileIdle /\ ArchiveIdle /\ QueryIdle /\ TextIdle
  /\ BrowseIdle /\ StoreIdle

SpecNormalize == InitNormalize /\ [][NormNext]_vars

RECURSIVE RawDocsOf(_)
RawDocsOf(folders) ==
  IF Len(folders) = 0 THEN <<>>
  ELSE folders[1].documents \o RawDocsOf(Tail(folders))

Distinct(seq) == \A i, j \in 1..Len(seq) : i # j => seq[i] # seq[j]

\* C4: a manifest whose raw file_path values are pairwise distinct flattens
\* to documents whose cleaned paths are pairwise distinct.
C4_CleanedPathsDistinct ==
  LET raw == RawDocsOf(rawManifest.folders)
  IN (pc = "flat" /\ Distinct([i \in 1..Len(raw) |-> raw[i].file_path]))
       => Distinct([i \in 1..Len(documents) |-> documents[i].path])

\* C7: on an 8- or 4-character all-digit date value, extractYear returns the
\* year of the first four digits when it lies in [1900,2100] and absent
\* (null) otherwise; no later branch is tried.
C7_FirstLengthBranchDecides ==
  pc = "flat" =>
    \A i \in 1..Len(documents) :
      LET d == documents[i].date
      IN (d # NoStr /\ Len(d) \in {4, 8} /\ AllDigits(d)) =>
           LET y == 1000 * DigitVal(d[1]) + 100 * DigitVal(d[2])
                    + 10 * DigitVal(d[3]) + DigitVal(d[4])
           IN documents[i].year =
                IF y >= 1900 /\ y <= 2100 THEN JsNum(y) ELSE JsNull

\* neither a 8/4/2-digit numeric string nor a parseable calendar date
Malformed(d) ==
  \/ d = NoStr
  \/ d = <<>>
  \/ /\ ~(Len(d) \in {2, 4, 8} /\ AllDigits(d))
     /\ DateYear(d, tzWest) = JsNull

\* C8: extractYear yields absent (null) or an integer year; a malformed date
\* value yields absent, and documents with malformed dates are not counted
\* in documents_with_dates.
C8_MalformedDateIsAbsent ==
  /\ pc \in {"flat", "stats"} =>
       \A i \in 1..Len(documents) :
         /\ documents[i].year.kind \in {"null", "num"}
         /\ Malformed(documents[i].date) => documents[i].year = JsNull
  /\ pc = "stats" =>
       docStats.documents_with_dates
         <= Cardinality({i \in 1..Len(documents) : ~Malformed(documents[i].date)})

(***************************************************************************)
(* Tag tables of a manifest and of a document collection                   *)
(***************************************************************************)
TagValues ==
  { <<"l", "d", "s">>, <<"L", "d", "s">>, <<"l", "D", "s">>,
    <<"L", "D", "S">>, <<"f", "1">>, <<"F", "1">> }
TagCountValues == {1, 2}

\* all_tags: an object, so its keys are pairwise distinct
TagTables ==
  {tt \in SeqsUpTo([tag : TagValues, count : TagCountValues], MaxTags) :
     \A i, j \in 1..Len(tt) : i # j => tt[i].tag # tt[j].tag}

\* the documents holding the tag occurrences occ in order, a new document
\* starting after each position in cuts
RECURSIVE CutDocs(_, _, _, _)
CutDocs(occ, cuts, i, cur) ==
  IF i > Len(occ) THEN <<documentToFlatDocument(RawDoc(<<"x">>, NoStr, cur), <<"a">>, FALSE)>>
  ELSE IF (i - 1) \in cuts
  THEN <<documentToFlatDocument(RawDoc(<<"x">>, NoStr, cur), <<"a">>, FALSE)>>
       \o CutDocs(occ, cuts, i + 1, <<occ[i]>>)
  ELSE CutDocs(occ, cuts, i + 1, Append(cur, occ[i]))

TagDocLists ==
  UNION {{CutDocs(occ, cuts, 1, <<>>) : cuts \in SUBSET (1..(Len(occ) - 1))}
         : occ \in SeqsUpTo(TagValues, MaxTagOccurrences)}

\* documents of two types tagged faith, family and travel
TableDocs ==
  {[documentToFlatDocument(RawDoc(<<"x">>, NoStr, tags), <<"a">>, FALSE)
      EXCEPT !.type = type] :
     tags \in {<<<<"f", "a", "i", "t", "h">>>>,
               <<<<"f", "a", "i", "t", "h">>, <<"f", "a", "m", "i", "l", "y">>>>,
               <<<<"t", "r", "a", "v", "e", "l">>>>,
               <<<<"f", "a", "m", "i", "l", "y">>>>},
     type \in {<<"l", "e", "t", "t", "e", "r">>, <<"p", "h", "o", "t", "o">>}}

TagsInit ==
  /\ \/ /\ rawManifest \in {[EmptyManifest EXCEPT !.all_tags = tt] : tt \in TagTables}
        /\ documents = <<>>
     \/ /\ rawManifest = EmptyManifest
        /\ documents \in TagDocLists \cup SeqsUpTo(TableDocs, MaxTableDocs)
  /\ tzWest = FALSE
  /\ pc = "documents"
  /\ docStats = NoStats
  /\ folderTree = <<>>
  /\ topTags = <<>>
  /\ topTagsD = <<>>
  /\ documentTypes = <<>>

\* useArchive: topTags = getTopTags(manifest, 20)
GetTopTags ==
  /\ pc = "documents"
  /\ topTags' = getTopTags(rawManifest, TopTagsLimit)
  /\ pc' = "tags"
  /\ UNCHANGED <<rawManifest, tzWest, documents, docStats, folderTree, topTagsD, documentTypes>>

\* useFirestoreArchive: topTags = getTopTagsFromDocuments(documents, 20)
GetTopTagsFromDocuments ==
  /\ pc = "tags"
  /\ topTagsD' = getTopTagsFromDocuments(documents, TopTagsLimit)
  /\ pc' = "tagsD"
  /\ UNCHANGED <<rawManifest, tzWest, documents, docStats, folderTree, topTags, documentTypes>>

\* useFirestoreArchive: documentTypes =
\* getDocumentTypeStatsFromDocuments(documents)
GetDocumentTypeStatsFromDocuments ==
  /\ pc = "tagsD"
  /\ documentTypes' = getDocumentTypeStatsFromDocuments(documents)
  /\ pc' = "typesD"
  /\ UNCHANGED <<rawManifest, tzWest, documents, docStats, folderTree, topTags,
                 topTagsD>>

TagsNext ==
  \/ GetDocumentTypeStatsFromDocuments
       /\ UNCHANGED <<fileVars, archiveVars, queryVars, textVars, browseVars, storeVars>>
  \/ GetTopTags
       /\ UNCHANGED <<fileVars, archiveVars, queryVars, textVars, browseVars, storeVars>>
  \/ GetTopTagsFromDocuments
       /\ UNCHANGED <<fileVars, archiveVars, queryVars, textVars, browseVars, storeVars>>

InitTags == TagsInit /\ FileIdle /\ ArchiveIdle /\ QueryIdle /\ TextIdle
  /\ BrowseIdle /\ StoreIdle

SpecTags == InitTags /\ [][TagsNext]_vars

\* the tags a collection holds, in encounter order, each counted once
RECURSIVE TagOccurrences(_)
TagOccurrences(docs) ==
  IF Len(docs) = 0 THEN <<>>
  ELSE [i \in 1..Len(docs[1].tags) |-> [tag |-> docs[1].tags[i], count |-> 1]]
       \o TagOccurrences(Tail(docs))

RECURSIVE SumOfVariants(_, _)
SumOfVariants(occ, lower) ==
  IF Len(occ) = 0 THEN 0
  ELSE (IF ToLowerCase(occ[1].tag) = lower THEN occ[1].count ELSE 0)
       + SumOfVariants(Tail(occ), lower)

OneEntryPerTag(table, occ) ==
  /\ \A i, j \in 1..Len(table) :
       i # j => ToLowerCase(table[i].tag) # ToLowerCase(table[j].tag)
  /\ {ToLowerCase(table[i].tag) : i \in 1..Len(table)}
       = {ToLowerCase(occ[i].tag) : i \in 1..Len(occ)}
  /\ \A i \in 1..Len(table) :
       table[i].count = SumOfVariants(occ, ToLowerCase(table[i].tag))

\* C9: the tag table has exactly one entry per distinct lower-cased tag, and
\* its count is the sum of the counts of all case variants of the tag.
C9_OneEntryPerLowerCasedTag ==
  /\ pc \in {"tags", "tagsD"} => OneEntryPerTag(topTags, rawManifest.all_tags)
  /\ pc = "tagsD" => OneEntryPerTag(topTagsD, TagOccurrences(documents))

C9_Witness ==
  /\ pc = "tagsD"
  /\ \/ /\ Len(rawManifest.all_tags) = 3 /\ Len(topTags) = 2
        /\ \E i \in 1..2 : topTags[i].count = 4
     \/ /\ Len(TagOccurrences(documents)) = 3 /\ Len(topTagsD) = 2
        /\ Len(documents) = 2
        /\ \E i \in 1..2 : topTagsD[i].count = 2

UpperCount(s) == Cardinality({i \in 1..Len(s) : \E k \in 1..26 : UpperLetters[k] = s[i]})

\* positions of the variants of a lower-cased tag with the most uppercase letters
MostUpper(occ, lower) ==
  LET variants == {i \in 1..Len(occ) : ToLowerCase(occ[i].tag) = lower}
  IN {i \in variants : \A j \in variants : UpperCount(occ[j].tag) <= UpperCount(occ[i].tag)}

SetMin(S) == CHOOSE x \in S : \A y \in S : x <= y

LabelsFirstSeen(table, occ) ==
  \A i \in 1..Len(table) :
    table[i].tag = occ[SetMin(MostUpper(occ, ToLowerCase(table[i].tag)))].tag

\* C10: the label of a merged tag is the variant with the most
\* uppercase letters, the first-seen one among equals.
C10_TieKeepsFirstSeen ==
  /\ pc \in {"tags", "tagsD"} => LabelsFirstSeen(topTags, rawManifest.all_tags)
  /\ pc = "tagsD" => LabelsFirstSeen(topTagsD, TagOccurrences(documents))

(***************************************************************************)
(* useArchive: the manifest fetch and the values derived from the manifest *)
(***************************************************************************)
ManifestFailedMsg == "Failed to fetch archive manifest"
JsonParseMsg == "Unexpected token in JSON"

ArchiveFolderPaths ==
  { InputPrefix \o <<"a">>, InputPrefix \o <<"a", "/", "b">>, <<"b">>, <<"a">> }
ArchiveDates == { <<"1", "9", "9", "7">>, NoStr }
ArchiveTags == { <<"l", "d", "s">>, <<"L", "D", "S">> }

\* a folder of the served manifest: one document, or none
ArchiveFolders ==
  {[path |-> fp, documents |-> <<>>, document_count |-> 0] : fp \in ArchiveFolderPaths}
  \cup {[path |-> fp,
         documents |-> <<RawDoc(fp \o <<"/", "f">>, d, <<tg>>)>>,
         document_count |-> 1]
        : fp \in ArchiveFolderPaths, d \in ArchiveDates, tg \in ArchiveTags}

\* the tag and type tables the manifest generator writes: a count per label
ArchiveManifestOf(folders) ==
  LET docs == RawDocsOf(folders)
      tags == CountAll([i \in 1..Len(docs) |-> docs[i].tags[1]], <<>>)
      types == CountAll([i \in 1..Len(docs) |-> docs[i].primary_type], <<>>)
  IN MakeManifest(folders,
       [i \in 1..Len(tags) |-> [tag |-> tags[i].key, count |-> tags[i].count]],
       [i \in 1..Len(types) |-> [type |-> types[i].key, count |-> types[i].count]])

ArchiveManifests ==
  {ArchiveManifestOf(fs) : fs \in
     {fs \in SeqsUpTo(ArchiveFolders, MaxArchiveFolders) :
        \A i, j \in 1..Len(fs) : i # j => fs[i].path # fs[j].path}}

\* useState initial values, the first render and the effect's fetch
ArchiveInit ==
  /\ manifest = <<>>
  /\ mLoading = TRUE
  /\ mError = Null
  /\ mPc = "fetch"
  /\ rawManifest \in ArchiveManifests
  /\ tzWest \in BOOLEAN
  /\ pc = "hook"
  /\ documents = <<>>
  /\ docStats = NoStats
  /\ folderTree = <<>>
  /\ topTags = <<>>
  /\ topTagsD = <<>>
  /\ documentTypes = <<>>

\* fetch() resolves with response.ok: the closure awaits response.json()
ManifestFetchOk ==
  /\ mPc = "fetch"
  /\ mPc' = "json"
  /\ UNCHANGED <<manifest, mLoading, mError, pipeVars>>

\* the catch and finally blocks of fetchManifest
ManifestCatch(msg) ==
  /\ mError' = msg
  /\ mLoading' = FALSE
  /\ mPc' = "failed"
  /\ UNCHANGED <<manifest, pipeVars>>

\* fetch() resolves with !response.ok
ManifestNotOkSetsBody ==
  /\ mPc = "fetch"
  /\ manifest' = <<rawManifest>>
  /\ mError' = ManifestFailedMsg
  /\ mLoading' = FALSE
  /\ mPc' = "failed"
  /\ UNCHANGED pipeVars

ManifestNotOk ==
  /\ mPc = "fetch"
  /\ ManifestCatch(ManifestFailedMsg)

\* fetch() rejects
ManifestFetchReject ==
  /\ mPc = "fetch"
  /\ ManifestCatch(NetworkErrorMsg)

\* response.json() rejects: the body is no JSON
ManifestJsonFail ==
  /\ mPc = "json"
  /\ ManifestCatch(JsonParseMsg)

\* response.json() resolves: setManifest(data), setLoading(false), and the
\* render that follows recomputes the memoized values from the manifest
ManifestJsonOk ==
  /\ mPc = "json"
  /\ manifest' = <<rawManifest>>
  /\ mLoading' = FALSE
  /\ mPc' = "done"
  /\ documents' = flattenDocuments(rawManifest, tzWest)
  /\ docStats' = calculateStats(rawManifest)
  /\ folderTree' = buildFolderTree(rawManifest)
  /\ topTags' = getTopTags(rawManifest, TopTagsLimit)
  /\ documentTypes' = getDocumentTypeStats(rawManifest)
  /\ UNCHANGED <<mError, rawManifest, tzWest, pc, topTagsD>>

ArchiveNext ==
  \/ ManifestFetchOk
       /\ UNCHANGED <<fileVars, queryVars, textVars, browseVars, storeVars>>
  \/ ManifestNotOk /\ UNCHANGED <<fileVars, queryVars, textVars, browseVars, storeVars>>
  \/ ManifestFetchReject
       /\ UNCHANGED <<fileVars, queryVars, textVars, browseVars, storeVars>>
  \/ ManifestJsonFail
       /\ UNCHANGED <<fileVars, queryVars, textVars, browseVars, storeVars>>
  \/ ManifestJsonOk
       /\ UNCHANGED <<fileVars, queryVars, textVars, browseVars, storeVars>>

InitArchive == ArchiveInit /\ FileIdle /\ QueryIdle /\ TextIdle
  /\ BrowseIdle /\ StoreIdle

SpecArchive == InitArchive /\ [][ArchiveNext]_vars

\* C3: the manifest fetch settles exactly once: when loading is false exactly
\* one of manifest and error is set; once error is set, manifest is null and
\* documents, folderTree, topTags and documentTypes are empty; and a settled
\* hook does not change again.
C3_ManifestSettlesOnce ==
  [][ /\ ~mLoading' => ((manifest' # <<>>) # (mError' # Null))
      /\ mError' # Null =>
           /\ manifest' = <<>>
           /\ documents' = <<>> /\ folderTree' = <<>>
           /\ topTags' = <<>> /\ documentTypes' = <<>>
      /\ ~mLoading => UNCHANGED <<manifest, mLoading, mError>> ]_vars

\* a parse failure has settled the fetch
C3_Witness ==
  /\ ~mLoading
  /\ mError = JsonParseMsg
  /\ Len(rawManifest.folders) = 2

(***************************************************************************)
(* filterDocuments and the Browse page filter                              *)
(***************************************************************************)
MaxFilterDocs == 3

\* String.prototype.includes
Includes(s, sub) ==
  \E i \in 0..(Len(s) - Len(sub)) : SubSeq(s, i + 1, i + Len(sub)) = sub

\* the order of UTF-16 code units, which < and > on strings compare by
CodeUnitOrder ==
  <<" ", "-", ".", "/">> \o DigitChars \o UpperLetters \o <<"_">> \o LowerLetters
CodeUnit(c) == CHOOSE i \in 1..Len(CodeUnitOrder) : CodeUnitOrder[i] = c

\* a <= b on strings
RECURSIVE StringLessOrEqual(_, _)
StringLessOrEqual(a, b) ==
  IF Len(a) = 0 THEN TRUE
  ELSE IF Len(b) = 0 THEN FALSE
  ELSE IF a[1] = b[1] THEN StringLessOrEqual(Tail(a), Tail(b))
  ELSE CodeUnit(a[1]) < CodeUnit(b[1])

\* a < b on strings
RECURSIVE StringLess(_, _)
StringLess(a, b) ==
  IF Len(b) = 0 THEN FALSE
  ELSE IF Len(a) = 0 THEN TRUE
  ELSE IF a[1] = b[1] THEN StringLess(Tail(a), Tail(b))
  ELSE CodeUnit(a[1]) < CodeUnit(b[1])

\* a string value is truthy unless null, undefined or ''
Truthy(s) == s # NoStr /\ s # <<>>

\* a table that ranks every level alike
confidenceLevelsFlat(c) == 0

\* confidenceLevels[c] || 0
confidenceLevels(c) ==
  CASE c = "low" -> 1
    [] c = "medium" -> 2
    [] c = "high" -> 3
    [] OTHER -> 0

\* every selected tag is among the document's tags
hasEveryTag(doc, tags) ==
  \A i \in 1..Len(tags) : \E j \in 1..Len(doc.tags) : doc.tags[j] = tags[i]

\* criteria.tags.some((tag) => doc.tags.includes(tag))
hasMatchingTag(doc, tags) ==
  \E i \in 1..Len(tags) : \E j \in 1..Len(doc.tags) : doc.tags[j] = tags[i]

\* the callback of documents.filter in filterDocuments
FilterKeeps(doc, c) ==
  /\ Truthy(c.query) =>
       LET query == ToLowerCase(c.query)
           matchesSummary == Includes(ToLowerCase(doc.summary), query)
           matchesFilename == Includes(ToLowerCase(doc.filename), query)
       IN matchesSummary \/ matchesFilename
  /\ Len(c.tags) > 0 => hasMatchingTag(doc, c.tags)
  /\ Len(c.types) > 0 => \E i \in 1..Len(c.types) : c.types[i] = doc.type
  /\ c.dateRange # <<>> =>
       LET start == c.dateRange[1].start
           end == c.dateRange[1].end
       IN /\ ~(Truthy(start) /\ Truthy(doc.date) /\ StringLess(doc.date, start))
          /\ ~(Truthy(end) /\ Truthy(doc.date) /\ StringLess(end, doc.date))
  /\ c.minConfidence # "" =>
       ~(confidenceLevels(doc.dateConfidence) < confidenceLevels(c.minConfidence))
  /\ Truthy(c.folderPath) => StartsWith(doc.folderPath, c.folderPath)

filterDocuments(docs, c) ==
  LET keep(doc) == FilterKeeps(doc, c) IN SelectSeq(docs, keep)

\* a callback that keeps a document carrying any one of the selected tags
BrowseKeepsAnyTag(doc, q, tags, types) ==
  /\ Truthy(q) =>
       \/ Includes(ToLowerCase(doc.summary), ToLowerCase(q))
       \/ Includes(ToLowerCase(doc.filename), ToLowerCase(q))
       \/ Includes(ToLowerCase(doc.path), ToLowerCase(q))
  /\ Len(tags) > 0 =>
       \E i \in 1..Len(tags) :
         \E j \in 1..Len(doc.tags) :
           ToLowerCase(doc.tags[j]) = ToLowerCase(tags[i])
  /\ Len(types) > 0 =>
       \E i \in 1..Len(types) : types[i] = doc.type

\* the callback of documents.filter in Browse
BrowseKeeps(doc, q, tags, types) ==
  /\ Truthy(q) =>
       LET query == ToLowerCase(q)
           matchesSummary == Includes(ToLowerCase(doc.summary), query)
           matchesFilename == Includes(ToLowerCase(doc.filename), query)
           matchesPath == Includes(ToLowerCase(doc.path), query)
       IN matchesSummary \/ matchesFilename \/ matchesPath
  /\ Len(tags) > 0 =>
       \A i \in 1..Len(tags) :
         \E j \in 1..Len(doc.tags) :
           ToLowerCase(doc.tags[j]) = ToLowerCase(tags[i])
  /\ Len(types) > 0 =>
       \E i \in 1..Len(types) : types[i] = doc.type

\* Browse: filteredDocuments
filteredDocuments(docs, q, tags, types) ==
  IF ~Truthy(q) /\ Len(tags) = 0 /\ Len(types) = 0
  THEN <<>>
  ELSE LET keep(doc) == BrowseKeeps(doc, q, tags, types)
       IN SelectSeq(docs, keep)

\* the collection filtered: three documents of two folders
Str_faith == <<"f", "a", "i", "t", "h">>
Str_family == <<"f", "a", "m", "i", "l", "y">>
Str_travel == <<"t", "r", "a", "v", "e", "l">>
Str_letter == <<"l", "e", "t", "t", "e", "r">>
Str_journal == <<"j", "o", "u", "r", "n", "a", "l">>
Str_box == <<"b", "o", "x">>

FilterDocA ==
  documentToFlatDocument(
    [file_path |-> InputPrefix \o <<"b", "o", "x", "/", "f", "1">>,
     file_name |-> <<"f", "1">>,
     document_date |-> <<"1", "9", "9", "0">>,
     date_confidence |-> "high",
     tags |-> <<Str_faith>>,
     primary_type |-> Str_letter,
     type_confidence |-> "high",
     summary |-> <<"T", "r", "i", "p">>],
    Str_box, FALSE)

FilterDocB ==
  documentToFlatDocument(
    [file_path |-> InputPrefix \o <<"b", "o", "x", "/", "s", "/", "f", "2">>,
     file_name |-> <<"f", "2">>,
     document_date |-> NoStr,
     date_confidence |-> "none",
     tags |-> <<Str_faith, Str_family>>,
     primary_type |-> Str_journal,
     type_confidence |-> "medium",
     summary |-> <<"s">>],
    <<"b", "o", "x", "/", "s">>, FALSE)

FilterDocC ==
  documentToFlatDocument(
    [file_path |-> InputPrefix \o <<"b", "i", "n", "/", "t", "r", "i", "p">>,
     file_name |-> <<"t", "r", "i", "p">>,
     document_date |-> <<"1", "9", "8", "5", "0", "1", "0", "1">>,
     date_confidence |-> "low",
     tags |-> <<Str_travel>>,
     primary_type |-> Str_letter,
     type_confidence |-> "low",
     summary |-> <<"s">>],
    <<"b", "i", "n">>, FALSE)

FilterDocs == {FilterDocA, FilterDocB, FilterDocC}

\* the SearchCriteria values tried: each criterion unset, empty or set
CriteriaValues ==
  [query : {<<>>, <<"t", "r", "i", "p">>, <<"B", "O", "X">>},
   tags : {<<>>, <<Str_faith>>, <<Str_travel, Str_family>>},
   types : {<<>>, <<Str_letter>>},
   dateRange : {<<>>,
                <<[start |-> <<"1", "9", "8", "8">>, end |-> NoStr]>>,
                <<[start |-> NoStr, end |-> <<"1", "9", "8", "8">>]>>,
                <<[start |-> <<"1", "9", "9", "0">>,
                   end |-> <<"1", "9", "9", "0">>]>>},
   minConfidence : {"", "medium"},
   folderPath : {<<>>, Str_box}]

FilterInit ==
  /\ documents \in SeqsUpTo(FilterDocs, MaxFilterDocs)
  /\ criteria \in CriteriaValues
  /\ pc = "documents"
  /\ rawManifest = EmptyManifest
  /\ tzWest = FALSE
  /\ docStats = NoStats
  /\ folderTree = <<>>
  /\ topTags = <<>>
  /\ topTagsD = <<>>
  /\ documentTypes = <<>>
  /\ folderTreeD = <<>>
  /\ filtered = <<>>
  /\ refiltered = <<>>
  /\ browsed = <<>>
  /\ target = <<>>
  /\ relatedLimit = 0
  /\ related = <<>>

\* a filter callback that normalises the summary of each document in place
FilterDocumentsLowercasing ==
  /\ pc = "documents"
  /\ documents' = [i \in 1..Len(documents) |->
                     [documents[i] EXCEPT !.summary = ToLowerCase(@)]]
  /\ filtered' = filterDocuments(documents', criteria)
  /\ pc' = "filtered"
  /\ UNCHANGED <<rawManifest, tzWest, docStats, folderTree, topTags, topTagsD,
                 documentTypes, folderTreeD, criteria, refiltered, browsed,
                 target, relatedLimit, related>>

\* useFilteredDocuments: filterDocuments(documents, criteria)
FilterDocuments ==
  /\ pc = "documents"
  /\ filtered' = filterDocuments(documents, criteria)
  /\ pc' = "filtered"
  /\ UNCHANGED <<rawManifest, tzWest, documents, docStats, folderTree, topTags,
                 topTagsD, documentTypes, folderTreeD, criteria, refiltered,
                 browsed, target, relatedLimit, related>>

\* the same call made again, and the filter applied to its own result
FilterDocumentsAgain ==
  /\ pc = "filtered"
  /\ filtered' = filterDocuments(documents, criteria)
  /\ refiltered' = filterDocuments(filtered, criteria)
  /\ pc' = "refiltered"
  /\ UNCHANGED <<rawManifest, tzWest, documents, docStats, folderTree, topTags,
                 topTagsD, documentTypes, folderTreeD, criteria, browsed,
                 target, relatedLimit, related>>

\* Browse: filteredDocuments of searchQuery, selectedTags, selectedTypes
BrowseFilter ==
  /\ pc = "documents"
  /\ browsed' = filteredDocuments(documents, criteria.query, criteria.tags,
                                  criteria.types)
  /\ pc' = "browsed"
  /\ UNCHANGED <<rawManifest, tzWest, documents, docStats, folderTree, topTags,
                 topTagsD, documentTypes, folderTreeD, criteria, filtered,
                 refiltered, target, relatedLimit, related>>

FilterNext ==
  \/ FilterDocuments
       /\ UNCHANGED <<fileVars, archiveVars, textVars, browseVars, storeVars>>
  \/ FilterDocumentsAgain
       /\ UNCHANGED <<fileVars, archiveVars, textVars, browseVars, storeVars>>
  \/ BrowseFilter
       /\ UNCHANGED <<fileVars, archiveVars, textVars, browseVars, storeVars>>

InitFilter == FilterInit /\ FileIdle /\ ArchiveIdle /\ TextIdle
  /\ BrowseIdle /\ StoreIdle

SpecFilter == InitFilter /\ [][FilterNext]_vars

\* the elements of a list, as a set
Elems(seq) == {seq[i] : i \in 1..Len(seq)}

\* the criteria with only the free-text query kept
OnlyQuery(c) == [NoCriteria EXCEPT !.query = c.query]
OnlyTags(c) == [NoCriteria EXCEPT !.tags = c.tags]

\* the ordinal of a confidence level
LevelOrdinal == [none |-> 0, low |-> 1, medium |-> 2, high |-> 3]

\* d satisfies every criterion set in c; the free-text criterion is the one
\* the filter applies when the query is the only criterion
Satisfies(d, c) ==
  /\ Truthy(c.query) => filterDocuments(<<d>>, OnlyQuery(c)) = <<d>>
  /\ c.tags # <<>> => Elems(c.tags) \cap Elems(d.tags) # {}
  /\ c.types # <<>> => d.type \in Elems(c.types)
  /\ (c.dateRange # <<>> /\ Truthy(d.date)) =>
       /\ Truthy(c.dateRange[1].start) => ~StringLess(d.date, c.dateRange[1].start)
       /\ Truthy(c.dateRange[1].end) => ~StringLess(c.dateRange[1].end, d.date)
  /\ c.minConfidence # "" =>
       LevelOrdinal[d.dateConfidence] >= LevelOrdinal[c.minConfidence]
  /\ Truthy(c.folderPath) =>
       /\ Len(d.folderPath) >= Len(c.folderPath)
       /\ \A i \in 1..Len(c.folderPath) : d.folderPath[i] = c.folderPath[i]

\* the sublist of seq at the positions in keep, in order
RECURSIVE Sublist(_, _, _)
Sublist(seq, keep, i) ==
  IF i > Len(seq) THEN <<>>
  ELSE (IF i \in keep THEN <<seq[i]>> ELSE <<>>) \o Sublist(seq, keep, i + 1)

\* C11: filterDocuments(D, c) is exactly the documents of D that satisfy
\* every criterion set in c, in their original relative order; with every
\* criterion unset or empty the result is the whole collection D.
C11_FilterIsConjunctionOfSetCriteria ==
  pc = "filtered" =>
    /\ filtered = Sublist(documents,
                          {i \in 1..Len(documents) : Satisfies(documents[i], criteria)},
                          1)
    /\ criteria = NoCriteria => filtered = documents

\* several criteria are set and they keep some documents and drop others
C11_Witness ==
  /\ pc = "filtered"
  /\ Truthy(criteria.query) /\ criteria.tags # <<>> /\ criteria.dateRange # <<>>
  /\ criteria.minConfidence # "" /\ Truthy(criteria.folderPath)
  /\ Len(documents) = 3
  /\ Len(filtered) = 1

\* q occurs case-insensitively in the summary, the filename or the path of d
QueryOccurs(d, q) ==
  \E field \in {d.summary, d.filename, d.path} :
    Includes(ToLowerCase(field), ToLowerCase(q))

\* C12: with only a free-text query q set, filterDocuments and the Browse
\* filter each keep a document iff q occurs case-insensitively in its
\* summary, its filename or its full path.
C12_QueryMatchesSummaryFilenameOrPath ==
  (Truthy(criteria.query) /\ criteria = OnlyQuery(criteria)) =>
    LET hits == {i \in 1..Len(documents) : QueryOccurs(documents[i], criteria.query)}
    IN /\ pc = "filtered" => filtered = Sublist(documents, hits, 1)
       /\ pc = "browsed" => browsed = Sublist(documents, hits, 1)

\* C13: with only a non-empty tag set T, filterDocuments keeps a document iff
\* at least one tag of T is among its tags.
C13_TagsAreAnyOf ==
  (pc = "filtered" /\ criteria.tags # <<>> /\ criteria = OnlyTags(criteria)) =>
    filtered = Sublist(documents,
                       {i \in 1..Len(documents) :
                          Elems(criteria.tags) \cap Elems(documents[i].tags) # {}},
                       1)

\* documents tagged [faith], [faith,family], [travel] filtered by {faith}:
\* exactly the first two
C13_Witness ==
  /\ pc = "filtered"
  /\ documents = <<FilterDocA, FilterDocB, FilterDocC>>
  /\ criteria = [NoCriteria EXCEPT !.tags = <<Str_faith>>]
  /\ filtered = <<FilterDocA, FilterDocB>>

MaxRelatedDocs == 4

\* the limit the Viewer passes, which is also the default
RelatedLimit == 5

\* doc.tags.filter((tag) => document.tags.includes(tag))
sharedTags(doc, document) ==
  LET shared(tag) == \E j \in 1..Len(document.tags) : document.tags[j] = tag
  IN SelectSeq(doc.tags, shared)

\* a filter that lets every score through
AnyScore(item) == item.score >= 0

\* .filter((item) => item.score > 0)
PositiveScore(item) == item.score > 0

\* a comparator that ranks low scores first
ScoreAscending(a, b) == a.score - b.score

\* the comparator (a, b) => b.score - a.score
ScoreDescending(a, b) == b.score - a.score

\* Array.prototype.sort with that comparator; the sort is stable
RECURSIVE InsertByScore(_, _)
InsertByScore(sorted, e) ==
  IF Len(sorted) = 0 THEN <<e>>
  ELSE IF ScoreDescending(sorted[Len(sorted)], e) <= 0 THEN Append(sorted, e)
  ELSE Append(InsertByScore(SubSeq(sorted, 1, Len(sorted) - 1), e),
              sorted[Len(sorted)])

RECURSIVE SortByScore(_)
SortByScore(items) ==
  IF Len(items) = 0 THEN <<>>
  ELSE InsertByScore(SortByScore(SubSeq(items, 1, Len(items) - 1)),
                     items[Len(items)])

\* Array.prototype.slice(0, n) for n >= 0
SliceTo(seq, n) == SubSeq(seq, 1, IF n < Len(seq) THEN n ELSE Len(seq))

findRelatedDocuments(document, allDocuments, n) ==
  LET notSelf(doc) == doc.path # document.path
      others == SelectSeq(allDocuments, notSelf)
      scored == [i \in 1..Len(others) |->
                   [doc |-> others[i],
                    score |-> Len(sharedTags(others[i], document))]]
      scoredDocs == SortByScore(SelectSeq(scored, PositiveScore))
      top == SliceTo(scoredDocs, n)
  IN [i \in 1..Len(top) |-> top[i].doc]

\* a document at path with tags
RelatedDoc(path, tags) ==
  documentToFlatDocument(
    [file_path |-> path, file_name |-> path, document_date |-> NoStr,
     date_confidence |-> "none", tags |-> tags, primary_type |-> Str_letter,
     type_confidence |-> "low", summary |-> <<"s">>],
    <<>>, FALSE)

\* the collection: documents sharing two, one or no tag with the two
\* documents the Viewer may show
RelatedDocs ==
  { RelatedDoc(<<"p", "0">>, <<Str_faith, Str_family>>),
    RelatedDoc(<<"p", "1">>, <<Str_faith>>),
    RelatedDoc(<<"p", "2">>, <<Str_family, Str_faith>>),
    RelatedDoc(<<"p", "3">>, <<Str_travel>>),
    RelatedDoc(<<"p", "4">>, <<Str_travel, Str_family>>) }

RelatedTargets ==
  { RelatedDoc(<<"p", "0">>, <<Str_faith, Str_family>>),
    RelatedDoc(<<"p", "4">>, <<Str_travel, Str_family>>) }

RelatedLimits == {0, 1, 2, RelatedLimit}

RelatedInit ==
  /\ documents \in {ds \in SeqsUpTo(RelatedDocs, MaxRelatedDocs) :
                      \A i, j \in 1..Len(ds) : i # j => ds[i] # ds[j]}
  /\ target \in RelatedTargets
  /\ relatedLimit \in RelatedLimits
  /\ pc = "documents"
  /\ related = <<>>
  /\ rawManifest = EmptyManifest
  /\ tzWest = FALSE
  /\ docStats = NoStats
  /\ folderTree = <<>>
  /\ topTags = <<>>
  /\ topTagsD = <<>>
  /\ documentTypes = <<>>
  /\ folderTreeD = <<>>
  /\ criteria = NoCriteria
  /\ filtered = <<>>
  /\ refiltered = <<>>
  /\ browsed = <<>>

\* Viewer: relatedDocuments = findRelatedDocuments(currentDoc, documents, 5)
FindRelatedDocuments ==
  /\ pc = "documents"
  /\ related' = findRelatedDocuments(target, documents, relatedLimit)
  /\ pc' = "related"
  /\ UNCHANGED <<rawManifest, tzWest, documents, docStats, folderTree, topTags,
                 topTagsD, documentTypes, folderTreeD, criteria, filtered,
                 refiltered, browsed, target, relatedLimit>>

RelatedNext == FindRelatedDocuments
       /\ UNCHANGED <<fileVars, archiveVars, textVars, browseVars, storeVars>>

InitRelated == RelatedInit /\ FileIdle /\ ArchiveIdle /\ TextIdle
  /\ BrowseIdle /\ StoreIdle

SpecRelated == InitRelated /\ [][RelatedNext]_vars

\* the number of tags doc has in common with the target
SharedCount(doc) == Cardinality(Elems(doc.tags) \cap Elems(target.tags))

\* C15: the result has at most N entries, none with the path of d, and none
\* sharing no tag with d.
C15_RelatedIsBoundedIrreflexiveAndOverlapping ==
  pc = "related" =>
    /\ Len(related) <= relatedLimit
    /\ \A i \in 1..Len(related) :
         /\ related[i].path # target.path
         /\ SharedCount(related[i]) > 0
         /\ related[i] \in Elems(documents)

\* the target is in the collection with documents that share tags with it
\* and documents that do not, and the limit cuts the result
C15_Witness ==
  /\ pc = "related"
  /\ target \in Elems(documents)
  /\ \E i \in 1..Len(documents) :
       documents[i] # target /\ SharedCount(documents[i]) = 0
  /\ Len(related) = relatedLimit
  /\ relatedLimit = 2
  /\ Len(documents) = 4

\* the position of a document in the collection
IndexIn(doc, docs) == CHOOSE i \in 1..Len(docs) : docs[i] = doc

\* C16: results are in non-increasing order of shared-tag count, equal
\* counts in collection order, and no candidate left out because of the
\* limit has a strictly higher count than a returned one.
C16_RelatedIsTopOfStableRanking ==
  pc = "related" =>
    /\ \A i, j \in 1..Len(related) :
         i < j =>
           \/ SharedCount(related[i]) > SharedCount(related[j])
           \/ /\ SharedCount(related[i]) = SharedCount(related[j])
              /\ IndexIn(related[i], documents) < IndexIn(related[j], documents)
    /\ \A k \in 1..Len(documents) :
         ( /\ documents[k].path # target.path
           /\ SharedCount(documents[k]) > 0
           /\ documents[k] \notin Elems(related) ) =>
             /\ Len(related) = relatedLimit
             /\ \A i \in 1..Len(related) :
                  SharedCount(documents[k]) <= SharedCount(related[i])

\* a two-tag match listed after one-tag matches is ranked first, the tie
\* between the one-tag matches keeps collection order, and the limit leaves
\* one of them out
C16_Witness ==
  /\ pc = "related"
  /\ relatedLimit = 2
  /\ Len(related) = 2
  /\ SharedCount(related[1]) = 2
  /\ SharedCount(related[2]) = 1
  /\ IndexIn(related[1], documents) > IndexIn(related[2], documents)
  /\ \E k \in 1..Len(documents) :
       /\ SharedCount(documents[k]) = 1
       /\ documents[k] \notin Elems(related)
       /\ documents[k].path # target.path

(***************************************************************************)
(* The text renderer: utils/textProcessor.ts                               *)
(* A text is a sequence of characters; a tag the renderer emits is kept as *)
(* one element, "<strong>", so that markup and text stay apart.            *)
(***************************************************************************)
MaxLines == 4
MaxCodes == 4

LetterSet == {LowerLetters[i] : i \in 1..26} \cup {UpperLetters[i] : i \in 1..26}
LowerSet == {LowerLetters[i] : i \in 1..26}

\* the characters String.prototype.trim removes
WhiteSpace == {" ", "\n", "\t", "\r"}

\* String.prototype.trim
RECURSIVE TrimStart(_)
TrimStart(s) ==
  IF Len(s) > 0 /\ s[1] \in WhiteSpace THEN TrimStart(Tail(s)) ELSE s

RECURSIVE TrimEnd(_)
TrimEnd(s) ==
  IF Len(s) > 0 /\ s[Len(s)] \in WhiteSpace
  THEN TrimEnd(SubSeq(s, 1, Len(s) - 1)) ELSE s

Trim(s) == TrimEnd(TrimStart(s))

\* text.split('\n')
SplitLines(s) ==
  LET RECURSIVE go(_, _, _)
      go(i, cur, acc) ==
        IF i > Len(s) THEN Append(acc, cur)
        ELSE IF s[i] = "\n" THEN go(i + 1, <<>>, Append(acc, cur))
        ELSE go(i + 1, Append(cur, s[i]), acc)
  IN go(1, <<>>, <<>>)

\* lines.join('\n')
RECURSIVE JoinLines(_)
JoinLines(lines) ==
  IF Len(lines) = 0 THEN <<>>
  ELSE IF Len(lines) = 1 THEN lines[1]
  ELSE lines[1] \o <<"\n">> \o JoinLines(Tail(lines))

\* s[from..to] is a non-empty run of characters of set
RunOf(s, from, to, set) ==
  /\ from <= to /\ to <= Len(s)
  /\ \A k \in from..to : s[k] \in set

\* /^\*[a-z]{1,4}\d+:.*$/
MatchesMargin(s) ==
  /\ Len(s) > 0 /\ s[1] = "*"
  /\ \E a \in 2..5 : \E d \in (a + 1)..Len(s) :
       /\ RunOf(s, 2, a, LowerSet)
       /\ RunOf(s, a + 1, d, Digits)
       /\ d + 1 <= Len(s) /\ s[d + 1] = ":"

\* /^\*\d+=.*$/
MatchesTab(s) ==
  /\ Len(s) > 0 /\ s[1] = "*"
  /\ \E d \in 2..Len(s) :
       RunOf(s, 2, d, Digits) /\ d + 1 <= Len(s) /\ s[d + 1] = "="

\* /^\*ft\d+:.*$/
MatchesFooter(s) ==
  /\ StartsWith(s, <<"*", "f", "t">>)
  /\ \E d \in 4..Len(s) :
       RunOf(s, 4, d, Digits) /\ d + 1 <= Len(s) /\ s[d + 1] = ":"

\* /^\*vp\d+$/
MatchesVp(s) ==
  /\ StartsWith(s, <<"*", "v", "p">>)
  /\ RunOf(s, 4, Len(s), Digits)

\* /^\*nb".*"$/
MatchesNb(s) ==
  /\ StartsWith(s, <<"*", "n", "b", "\"">>)
  /\ Len(s) >= 5 /\ s[Len(s)] = "\""

\* the test of the continue in stripFormattingCodes
IsFormattingLine(trimmed) ==
  /\ Len(trimmed) > 0
  /\ \/ trimmed[1] = ";"
     \/ MatchesMargin(trimmed)
     \/ MatchesTab(trimmed)
     \/ MatchesFooter(trimmed)
     \/ MatchesVp(trimmed)
     \/ MatchesNb(trimmed)

\* the for loop of stripFormattingCodes
RECURSIVE StripLoop(_, _, _, _)
StripLoop(lines, i, inContent, cleanedLines) ==
  IF i > Len(lines) THEN cleanedLines
  ELSE LET line == lines[i]
           trimmed == Trim(line)
       IN IF IsFormattingLine(trimmed)
          THEN StripLoop(lines, i + 1, inContent, cleanedLines)
          ELSE LET now == inContent \/ Len(trimmed) > 0
               IN StripLoop(lines, i + 1, now,
                            IF now THEN Append(cleanedLines, line)
                            ELSE cleanedLines)

stripFormattingCodes(text) ==
  Trim(JoinLines(StripLoop(SplitLines(text), 1, FALSE, <<>>)))

\* the older copy of the function: a header line starts with ';' or '*'
RECURSIVE StripLoopV1(_, _, _, _)
StripLoopV1(lines, i, headerEnded, cleanedLines) ==
  IF i > Len(lines) THEN cleanedLines
  ELSE LET line == lines[i]
           trimmed == Trim(line)
           marked == Len(trimmed) > 0 /\ trimmed[1] \in {";", "*"}
       IN IF ~headerEnded /\ marked
          THEN StripLoopV1(lines, i + 1, headerEnded, cleanedLines)
          ELSE LET now == headerEnded \/ (Len(trimmed) > 0 /\ ~marked)
               IN StripLoopV1(lines, i + 1, now,
                              IF now THEN Append(cleanedLines, line)
                              ELSE cleanedLines)

stripFormattingCodesV1(text) ==
  Trim(JoinLines(StripLoopV1(SplitLines(text), 1, FALSE, <<>>)))

\* EASYSCRIPT_CODES: the entries with a tag, by type
StartCodes ==
  { [code |-> <<"0", "4">>, tag |-> "strong"],
    [code |-> <<"1", "8">>, tag |-> "u"],
    [code |-> <<"0", "4", "6">>, tag |-> "em"] }

EndCodes == { <<"2", "0">>, <<"1", "4", "6">>, <<"1", "4", "7">> }

\* EASYSCRIPT_CODES: the tag an end code is listed with
EndCodeTag(code) ==
  CASE code = <<"2", "0">> -> "strong"
    [] code = <<"1", "4", "6">> -> "u"
    [] code = <<"1", "4", "7">> -> "em"

\* EASYSCRIPT_CODES: '43' quote-start, listed with a class and no tag
QuoteStartCode == <<"4", "3">>

\* a choice of the tag to close by the kind of the end code
tagOfEndCode(openTags, code) == EndCodeTag(code)

\* const tagToClose = openTags.pop()
tagToClose(openTags, code) == openTags[Len(openTags)]

OpenTag(tag) == "<" \o tag \o ">"
CloseTag(tag) == "</" \o tag \o ">"

\* the length of the match of codePattern at index i of text, 0 for none:
\* /(\d{2,3})(?=[A-Za-z])|(?<=[A-Za-z])(\d{2,3})/
CodeMatchAt(text, i) ==
  LET digit(k) == k <= Len(text) /\ text[k] \in Digits
      letter(k) == k >= 1 /\ k <= Len(text) /\ text[k] \in LetterSet
  IN IF digit(i) /\ digit(i + 1) /\ digit(i + 2) /\ letter(i + 3) THEN 3
     ELSE IF digit(i) /\ digit(i + 1) /\ letter(i + 2) THEN 2
     ELSE IF letter(i - 1) /\ digit(i) /\ digit(i + 1)
     THEN (IF digit(i + 2) THEN 3 ELSE 2)
     ELSE 0

\* text.matchAll(codePattern) and the forEach over the matches, scanning
\* from index i: the output so far and the stack of open tags
RECURSIVE TranslateLoop(_, _, _, _)
TranslateLoop(text, i, out, openTags) ==
  IF i > Len(text) THEN [processed |-> out, openTags |-> openTags]
  ELSE LET n == CodeMatchAt(text, i)
           code == SubSeq(text, i, i + n - 1)
       IN IF n = 0 THEN TranslateLoop(text, i + 1, Append(out, text[i]), openTags)
          ELSE IF \E m \in StartCodes : m.code = code
          THEN LET tag == (CHOOSE m \in StartCodes : m.code = code).tag
               IN TranslateLoop(text, i + n, Append(out, OpenTag(tag)),
                                Append(openTags, tag))
          ELSE IF code \in EndCodes /\ Len(openTags) > 0
          THEN TranslateLoop(text, i + n,
                             Append(out, CloseTag(tagToClose(openTags, code))),
                             SubSeq(openTags, 1, Len(openTags) - 1))
          ELSE TranslateLoop(text, i + n, out, openTags)

\* a closing loop that closes the oldest open tag first
RECURSIVE CloseOldestFirst(_, _)
CloseOldestFirst(out, openTags) ==
  IF Len(openTags) = 0 THEN out
  ELSE CloseOldestFirst(Append(out, CloseTag(openTags[1])), Tail(openTags))

\* while (openTags.length > 0) processed += `</${openTags.pop()}>`
RECURSIVE CloseOpenTags(_, _)
CloseOpenTags(out, openTags) ==
  IF Len(openTags) = 0 THEN out
  ELSE CloseOpenTags(Append(out, CloseTag(openTags[Len(openTags)])),
                     SubSeq(openTags, 1, Len(openTags) - 1))

translateEasyScriptFormatting(text) ==
  LET r == TranslateLoop(text, 1, <<>>, <<>>)
  IN CloseOpenTags(r.processed, r.openTags)

\* the backtick character
Backtick == "BACKTICK"

\* decoded.replace(/`\d+/g, '')
RECURSIVE RemoveBacktickCodes(_)
RemoveBacktickCodes(s) ==
  IF Len(s) = 0 THEN <<>>
  ELSE IF s[1] = Backtick /\ Len(s) >= 2 /\ s[2] \in Digits
  THEN LET RECURSIVE skip(_)
           skip(r) == IF Len(r) > 0 /\ r[1] \in Digits THEN skip(Tail(r)) ELSE r
       IN RemoveBacktickCodes(skip(Tail(s)))
  ELSE <<s[1]>> \o RemoveBacktickCodes(Tail(s))

\* the characters of /[\x00-\x08\x0B-\x0C\x0E-\x1F\x7F]/ a text can hold here:
\* form feed, written in caret notation
ControlChars == {"^L"}

\* decoded.replace(/[\x00-\x08\x0B-\x0C\x0E-\x1F\x7F]/g, '')
RemoveControlChars(s) ==
  LET kept(c) == c \notin ControlChars IN SelectSeq(s, kept)

decodeSpecialCharacters(text) ==
  RemoveControlChars(translateEasyScriptFormatting(RemoveBacktickCodes(text)))

\* a normalisation that leaves runs of newlines as they are
KeepNewlines(s) == s

\* processed.replace(/\n{3,}/g, '\n\n'); the second replace maps '\n\n' to
\* itself
RECURSIVE CollapseNewlines(_)
CollapseNewlines(s) ==
  IF Len(s) = 0 THEN <<>>
  ELSE IF Len(s) >= 3 /\ s[1] = "\n" /\ s[2] = "\n" /\ s[3] = "\n"
  THEN LET RECURSIVE skip(_)
           skip(r) == IF Len(r) > 0 /\ r[1] = "\n" THEN skip(Tail(r)) ELSE r
       IN <<"\n", "\n">> \o CollapseNewlines(skip(s))
  ELSE <<s[1]>> \o CollapseNewlines(Tail(s))

\* processText(rawText, { stripHeaders, wrapLines: false, decodeChars }); the
\* Viewer, the only caller, never asks for wrapLines
processText(text, stripHeaders, decodeChars) ==
  LET s1 == IF stripHeaders THEN stripFormattingCodes(text) ELSE text
      s2 == IF decodeChars THEN decodeSpecialCharacters(s1) ELSE s1
  IN Trim(CollapseNewlines(s2))

\* the lines a file is made of: blank, content, the two kinds of formatting
\* line, a line that starts with '*' without being a directive, and a line
\* with digits that touch no letter
TextLines ==
  { <<>>,
    <<"x">>,
    <<";", "c">>,
    <<"*", "l", "m", "1", "2", ":", "r", "m", "7", "5">>,
    <<"*", "x">>,
    <<" ", "1", "2", " ", "y">> }

LineTexts == {JoinLines(ls) : ls \in SeqsUpTo(TextLines, MaxLines)}

\* the codes a file holds, each followed by a letter, and a number that
\* touches no letter
CodeItems ==
  { <<"0", "4", "x">>, <<"2", "0", "x">>, <<"1", "8", "x">>,
    <<"1", "4", "6", "x">>, <<"0", "4", "6", "x">>, <<"4", "3", "x">>,
    <<"9", "9", "x">>, <<" ", "2", "0", " ">> }

RECURSIVE Concat(_)
Concat(items) ==
  IF Len(items) = 0 THEN <<>> ELSE items[1] \o Concat(Tail(items))

CodeTexts == {<<"x">> \o Concat(cs) : cs \in SeqsUpTo(CodeItems, MaxCodes)}

TextInit ==
  /\ rawText \in LineTexts \cup CodeTexts
  /\ tpc = "raw"
  /\ stripped = <<>>
  /\ strippedV1 = <<>>
  /\ translated = <<>>
  /\ processed = <<>>

\* stripFormattingCodes(text), by both copies of the function
StripFormattingCodes ==
  /\ tpc = "raw"
  /\ stripped' = stripFormattingCodes(rawText)
  /\ strippedV1' = stripFormattingCodesV1(rawText)
  /\ tpc' = "stripped"
  /\ UNCHANGED <<rawText, translated, processed>>

TranslateEasyScriptFormatting ==
  /\ tpc = "raw"
  /\ translated' = translateEasyScriptFormatting(rawText)
  /\ tpc' = "translated"
  /\ UNCHANGED <<rawText, stripped, strippedV1, processed>>

\* Viewer: processedContent = processText(content, { stripHeaders: true,
\* wrapLines: false, decodeChars: true })
ProcessText ==
  /\ tpc = "raw"
  /\ processed' = processText(rawText, TRUE, TRUE)
  /\ tpc' = "processed"
  /\ UNCHANGED <<rawText, stripped, strippedV1, translated>>

TextNext ==
  \/ StripFormattingCodes
       /\ UNCHANGED <<fileVars, archiveVars, pipeVars, queryVars, browseVars, storeVars>>
  \/ TranslateEasyScriptFormatting
       /\ UNCHANGED <<fileVars, archiveVars, pipeVars, queryVars, browseVars, storeVars>>
  \/ ProcessText
       /\ UNCHANGED <<fileVars, archiveVars, pipeVars, queryVars, browseVars, storeVars>>

InitText == TextInit /\ FileIdle /\ ArchiveIdle /\ PipeIdle /\ QueryIdle
  /\ BrowseIdle /\ StoreIdle

SpecText == InitText /\ [][TextNext]_vars

\* a line with genuine content: not blank and not a formatting line
IsContentLine(line) == Len(Trim(line)) > 0 /\ ~IsFormattingLine(Trim(line))

\* the lines of a text from its first content line on
FromFirstContent(lines) ==
  IF \E i \in 1..Len(lines) : IsContentLine(lines[i])
  THEN LET first == CHOOSE i \in 1..Len(lines) :
                      /\ IsContentLine(lines[i])
                      /\ \A k \in 1..(i - 1) : ~IsContentLine(lines[k])
       IN SubSeq(lines, first, Len(lines))
  ELSE <<>>

\* C17: stripFormattingCodes keeps, in order, every line from the first
\* content line on, blank and formatting lines included; formatting lines
\* are dropped only before content begins (the result is trimmed at both
\* ends).
C17_LinesKeptOnceContentBegins ==
  tpc = "stripped" =>
    stripped = Trim(JoinLines(FromFirstContent(SplitLines(rawText))))

\* the tags of the renderer's markup
TagNames == {"strong", "u", "em", "span"}
OpenTags == {OpenTag(tag) : tag \in TagNames}
CloseTags == {CloseTag(tag) : tag \in TagNames}

\* the tags left open after out[i..], starting with the tags in stack; a
\* closing tag that does not close the tag on top makes the markup "bad"
RECURSIVE OpenAfter(_, _, _)
OpenAfter(out, i, stack) ==
  IF i > Len(out) THEN stack
  ELSE IF out[i] \in OpenTags THEN OpenAfter(out, i + 1, Append(stack, out[i]))
  ELSE IF out[i] \in CloseTags
  THEN IF /\ Len(stack) > 0
          /\ \E tag \in TagNames :
               stack[Len(stack)] = OpenTag(tag) /\ out[i] = CloseTag(tag)
       THEN OpenAfter(out, i + 1, SubSeq(stack, 1, Len(stack) - 1))
       ELSE <<"bad">>
  ELSE OpenAfter(out, i + 1, stack)

CountIn(out, set) == Cardinality({i \in 1..Len(out) : out[i] \in set})

\* C18: the markup translateEasyScriptFormatting emits is properly nested:
\* every closing tag closes the most recently opened still-open tag, none is
\* emitted with no tag open, and no tag is left open at the end, so opening
\* and closing tags are equal in number.
C18_MarkupProperlyNested ==
  tpc = "translated" =>
    /\ OpenAfter(translated, 1, <<>>) = <<>>
    /\ CountIn(translated, OpenTags) = CountIn(translated, CloseTags)

\* an end code with no open tag, two start codes left open, an unknown code
C18_Witness ==
  /\ tpc = "translated"
  /\ rawText = <<"x", "2", "0", "x", "0", "4", "x", "1", "8", "x", "9", "9", "x">>
  /\ translated = <<"x", "x", "<strong>", "x", "<u>", "x", "x", "</u>", "</strong>">>

\* no control character, no backtick code, no digit next to a letter and no
\* formatting line
IsPlainText(text) ==
  /\ \A i \in 1..Len(text) : text[i] \notin ControlChars \cup {Backtick}
  /\ \A i \in 1..(Len(text) - 1) :
       /\ ~(text[i] \in Digits /\ text[i + 1] \in LetterSet)
       /\ ~(text[i] \in LetterSet /\ text[i + 1] \in Digits)
  /\ \A line \in Elems(SplitLines(text)) : ~IsFormattingLine(Trim(line))

\* C19 as stated: for a plain text, processText with stripHeaders and
\* decodeChars on and wrapLines off returns the input trimmed.
C19_PlainTextReturnedTrimmed ==
  (tpc = "processed" /\ IsPlainText(rawText)) => processed = Trim(rawText)

\* the lines of a text without each empty line that follows an empty line
SingleBlankLines(lines) ==
  Sublist(lines,
          {i \in 1..Len(lines) : ~(i > 1 /\ lines[i] = <<>> /\ lines[i - 1] = <<>>)},
          1)

\* C19 amended: for a plain text, processText returns the input trimmed, with
\* every run of three or more newlines replaced by two, and otherwise
\* unchanged.
C19_PlainTextTrimmedAndBlankLinesCollapsed ==
  (tpc = "processed" /\ IsPlainText(rawText)) =>
    processed = JoinLines(SingleBlankLines(SplitLines(Trim(rawText))))

\* a plain text with surrounding white space and two blank lines in a row
C19_Witness ==
  /\ tpc = "processed"
  /\ IsPlainText(rawText)
  /\ rawText = <<" ", "1", "2", " ", "y", "\n", "\n", "\n", "x">>
  /\ processed = <<"1", "2", " ", "y", "\n", "\n", "x">>

(***************************************************************************)
(* The two providers of useArchiveData, applied to one manifest            *)
(***************************************************************************)
MaxProviderFolders == 2
MaxFolderDocs == 2

ProviderFolderPaths ==
  { <<"a">>, <<"a", "/", "b">>, InputPrefix \o <<"a">>, <<"c">> }

\* a folder holding n documents, its document_count being n
ProviderFolder(fp, n) ==
  [path |-> fp,
   documents |-> [i \in 1..n |-> RawDoc(fp \o <<"/", "f">> \o <<DigitChars[i]>>,
                                        NoStr, <<Str_faith>>)],
   document_count |-> n]

ProviderManifests ==
  {ArchiveManifestOf(fs) : fs \in
     {fs \in SeqsUpTo({ProviderFolder(fp, n) :
                         fp \in ProviderFolderPaths, n \in 0..MaxFolderDocs},
                      MaxProviderFolders) :
        \A i, j \in 1..Len(fs) : i # j => fs[i].path # fs[j].path}}

ProviderInit ==
  /\ rawManifest \in ProviderManifests
  /\ tzWest = FALSE
  /\ pc = "manifest"
  /\ documents = <<>>
  /\ docStats = NoStats
  /\ folderTree = <<>>
  /\ topTags = <<>>
  /\ topTagsD = <<>>
  /\ documentTypes = <<>>
  /\ folderTreeD = <<>>
  /\ criteria = NoCriteria
  /\ filtered = <<>>
  /\ refiltered = <<>>
  /\ browsed = <<>>
  /\ target = <<>>
  /\ relatedLimit = 0
  /\ related = <<>>

\* useArchive: folderTree = buildFolderTree(manifest)
ManifestProviderTree ==
  /\ pc = "manifest"
  /\ folderTree' = buildFolderTree(rawManifest)
  /\ pc' = "static"
  /\ UNCHANGED <<rawManifest, tzWest, documents, docStats, topTags, topTagsD,
                 documentTypes, queryVars>>

\* useFirestoreArchive on the same documents:
\* folderTree = buildFolderTreeFromDocuments(documents)
StoreProviderTree ==
  /\ pc = "static"
  /\ documents' = flattenDocuments(rawManifest, tzWest)
  /\ folderTreeD' = buildFolderTreeFromDocuments(documents')
  /\ pc' = "both"
  /\ UNCHANGED <<rawManifest, tzWest, docStats, folderTree, topTags, topTagsD,
                 documentTypes, criteria, filtered, refiltered, browsed, target,
                 relatedLimit, related>>

ProviderNext ==
  \/ ManifestProviderTree
       /\ UNCHANGED <<fileVars, archiveVars, textVars, browseVars, storeVars>>
  \/ StoreProviderTree
       /\ UNCHANGED <<fileVars, archiveVars, textVars, browseVars, storeVars>>

InitProviders == ProviderInit /\ FileIdle /\ ArchiveIdle /\ TextIdle
  /\ BrowseIdle /\ StoreIdle

SpecProviders == InitProviders /\ [][ProviderNext]_vars

\* C20: for a manifest whose folders each have document_count equal to the
\* length of their documents list, the tree built from the flattened
\* documents has the same nodes, the same parent of each node and the same
\* documentCount per node as the tree built from the manifest.
C20_ProvidersBuildTheSameTree ==
  ( /\ pc = "both"
    /\ \A i \in 1..Len(rawManifest.folders) :
         rawManifest.folders[i].document_count = Len(rawManifest.folders[i].documents) )
  => TreeEdges(folderTreeD, NoStr) = TreeEdges(folderTree, NoStr)
(***************************************************************************)
(* Browse page: pages/Browse.tsx.  Its filter state is read from the URL   *)
(* when the page mounts and written back to it after every change; the     *)
(* expanded folders are read from localStorage and written by toggleFolder. *)
(***************************************************************************)
Str_trip == <<"t", "r", "i", "p">>
Str_Faith == <<"F", "a", "i", "t", "h">>
Str_box3 == <<"b", "o", "x", "-", "3">>

\* a document whose tag differs from 'faith' in case only
FilterDocD ==
  [FilterDocC EXCEPT !.tags = <<Str_Faith, Str_travel>>, !.type = Str_journal]

BrowseDocs == <<FilterDocA, FilterDocB, FilterDocC, FilterDocD>>
BrowseQueries == {<<>>, Str_trip}
BrowseTags == {Str_faith, Str_family, Str_travel}
BrowseTypes == {Str_letter, Str_journal}
BrowseFolders == {Str_box3, <<"a">>}

\* searchParams.get('q') || ''
InitialQuery(params) == IF Truthy(params.q) THEN params.q ELSE <<>>

\* const tag = searchParams.get('tag'); return tag ? [tag] : []
InitialSelection(param) == IF Truthy(param) THEN <<param>> ELSE <<>>

\* the parameters the URL effect sets: q when the query is not empty, and
\* the first selected tag and the first selected type
WriteParams(q, tags, types) ==
  [q |-> IF Truthy(q) THEN q ELSE NoStr,
   tag |-> IF Len(tags) > 0 THEN tags[1] ELSE NoStr,
   type |-> IF Len(types) > 0 THEN types[1] ELSE NoStr]

\* prev.includes(x) ? prev.filter((t) => t !== x) : [...prev, x]
Toggle(prev, x) ==
  IF \E i \in 1..Len(prev) : prev[i] = x
  THEN LET other(t) == t # x IN SelectSeq(prev, other)
  ELSE Append(prev, x)

\* JSON.stringify of an array of strings free of quotes and backslashes
RECURSIVE JsonItems(_)
JsonItems(arr) ==
  IF Len(arr) = 0 THEN <<>>
  ELSE <<"Q">> \o arr[1] \o <<"Q">>
       \o (IF Len(arr) > 1 THEN <<",">> ELSE <<>>) \o JsonItems(Tail(arr))

JsonStringify(arr) == <<"[">> \o JsonItems(arr) \o <<"]">>

\* JSON.parse of such a text: the strings between the quotation marks
JsonParse(text) ==
  LET RECURSIVE go(_, _, _, _)
      go(i, inside, cur, acc) ==
        IF i > Len(text) THEN acc
        ELSE IF text[i] = "Q"
        THEN (IF inside THEN go(i + 1, FALSE, <<>>, Append(acc, cur))
              ELSE go(i + 1, TRUE, <<>>, acc))
        ELSE IF inside THEN go(i + 1, inside, Append(cur, text[i]), acc)
        ELSE go(i + 1, inside, cur, acc)
  IN go(1, FALSE, <<>>, <<>>)

\* new Set(array): the members in insertion order, each once
RECURSIVE NewSet(_)
NewSet(arr) ==
  IF Len(arr) = 0 THEN <<>>
  ELSE LET init == NewSet(SubSeq(arr, 1, Len(arr) - 1))
           last == arr[Len(arr)]
       IN IF \E i \in 1..Len(init) : init[i] = last THEN init
          ELSE Append(init, last)

\* saved ? new Set(JSON.parse(saved)) : new Set(['box-3'])
InitialExpanded(saved) ==
  IF Truthy(saved) THEN NewSet(JsonParse(saved)) ELSE <<Str_box3>>

\* the entries a visitor's localStorage may hold when the page mounts
SavedEntries ==
  {NoStr, JsonStringify(<<>>), JsonStringify(<<<<"a">>>>),
   JsonStringify(<<<<"a">>, Str_box3>>)}

\* the URLs the page may be opened with
OpenedParams ==
  [q : {NoStr, Str_trip}, tag : {NoStr, Str_faith}, type : {NoStr, Str_letter}]

\* the page mounted, its first render done and its URL effect run
BrowseInit ==
  /\ \E params \in OpenedParams :
       /\ searchQuery = InitialQuery(params)
       /\ selectedTags = InitialSelection(params.tag)
       /\ selectedTypes = InitialSelection(params.type)
  /\ searchParams = WriteParams(searchQuery, selectedTags, selectedTypes)
  /\ localStorage \in SavedEntries
  /\ expandedFolders = InitialExpanded(localStorage)
  /\ rawManifest = EmptyManifest
  /\ tzWest = FALSE
  /\ pc = "browse"
  /\ documents = BrowseDocs
  /\ docStats = NoStats
  /\ folderTree = <<>>
  /\ topTags = <<>>
  /\ topTagsD = <<>>
  /\ documentTypes = <<>>
  /\ folderTreeD = <<>>
  /\ criteria = NoCriteria
  /\ filtered = <<>>
  /\ refiltered = <<>>
  /\ browsed = filteredDocuments(documents, searchQuery, selectedTags,
                                 selectedTypes)
  /\ target = <<>>
  /\ relatedLimit = 0
  /\ related = <<>>

\* the render that follows a change of the filter state: the filteredDocuments
\* memo is recomputed and the effect writes the URL
Render ==
  /\ browsed' = filteredDocuments(documents, searchQuery', selectedTags',
                                  selectedTypes')
  /\ searchParams' = WriteParams(searchQuery', selectedTags', selectedTypes')
  /\ UNCHANGED <<pipeVars, folderTreeD, criteria, filtered, refiltered, target,
                 relatedLimit, related>>

\* the search box: setSearchQuery(e.target.value)
SetSearchQuery(q) ==
  /\ pc = "browse"
  /\ searchQuery' = q
  /\ UNCHANGED <<selectedTags, selectedTypes, expandedFolders, localStorage>>
  /\ Render

ToggleTag(tag) ==
  /\ pc = "browse"
  /\ selectedTags' = Toggle(selectedTags, tag)
  /\ UNCHANGED <<searchQuery, selectedTypes, expandedFolders, localStorage>>
  /\ Render

ToggleType(type) ==
  /\ pc = "browse"
  /\ selectedTypes' = Toggle(selectedTypes, type)
  /\ UNCHANGED <<searchQuery, selectedTags, expandedFolders, localStorage>>
  /\ Render

ClearFilters ==
  /\ pc = "browse"
  /\ searchQuery' = <<>>
  /\ selectedTags' = <<>>
  /\ selectedTypes' = <<>>
  /\ UNCHANGED <<expandedFolders, localStorage>>
  /\ Render

\* toggleFolder with the set before the change persisted
ToggleFolderSavingPrev(path) ==
  /\ pc = "browse"
  /\ expandedFolders' = Toggle(expandedFolders, path)
  /\ localStorage' = JsonStringify(expandedFolders)
  /\ UNCHANGED <<searchQuery, selectedTags, selectedTypes, searchParams,
                 pipeVars, queryVars>>

\* toggleFolder(path): newSet is prev with path removed or added, is written
\* to localStorage and becomes the state
ToggleFolder(path) ==
  /\ pc = "browse"
  /\ expandedFolders' = Toggle(expandedFolders, path)
  /\ localStorage' = JsonStringify(expandedFolders')
  /\ UNCHANGED <<searchQuery, selectedTags, selectedTypes, searchParams,
                 pipeVars, queryVars>>

\* the page loaded again at the URL and with the localStorage it left
Remount ==
  /\ pc = "browse"
  /\ searchQuery' = InitialQuery(searchParams)
  /\ selectedTags' = InitialSelection(searchParams.tag)
  /\ selectedTypes' = InitialSelection(searchParams.type)
  /\ expandedFolders' = InitialExpanded(localStorage)
  /\ UNCHANGED localStorage
  /\ Render

BrowseNext ==
  \/ \E q \in BrowseQueries : SetSearchQuery(q)
       /\ UNCHANGED <<fileVars, archiveVars, textVars, storeVars>>
  \/ \E tag \in BrowseTags : ToggleTag(tag)
       /\ UNCHANGED <<fileVars, archiveVars, textVars, storeVars>>
  \/ \E type \in BrowseTypes : ToggleType(type)
       /\ UNCHANGED <<fileVars, archiveVars, textVars, storeVars>>
  \/ ClearFilters /\ UNCHANGED <<fileVars, archiveVars, textVars, storeVars>>
  \/ \E path \in BrowseFolders : ToggleFolder(path)
       /\ UNCHANGED <<fileVars, archiveVars, textVars, storeVars>>
  \/ Remount /\ UNCHANGED <<fileVars, archiveVars, textVars, storeVars>>

InitBrowse == BrowseInit /\ FileIdle /\ ArchiveIdle /\ TextIdle /\ StoreIdle

SpecBrowse == InitBrowse /\ [][BrowseNext]_vars

\* C21: the state the page would initialise from the URL parameters it wrote
\* is the state it is in: same searchQuery, selectedTags and selectedTypes.
C21_UrlRestoresFilterState ==
  /\ InitialQuery(searchParams) = searchQuery
  /\ InitialSelection(searchParams.tag) = selectedTags
  /\ InitialSelection(searchParams.type) = selectedTypes

\* d carries every tag of tags, letter case ignored
CarriesEveryTag(d, tags) ==
  \A i \in 1..Len(tags) :
    \E j \in 1..Len(d.tags) : ToLowerCase(d.tags[j]) = ToLowerCase(tags[i])

SomethingSelected ==
  Truthy(searchQuery) \/ Len(selectedTags) > 0 \/ Len(selectedTypes) > 0

\* a step that selects one more tag and leaves the query and the types alone
SelectsOneMoreTag ==
  /\ \E tag \in BrowseTags :
       /\ \A i \in 1..Len(selectedTags) : selectedTags[i] # tag
       /\ selectedTags' = Append(selectedTags, tag)
  /\ UNCHANGED <<searchQuery, selectedTypes>>

\* C25: with tags selected the Browse list holds only documents that carry
\* every selected tag, letter case ignored, and exactly those when neither a
\* query nor a type is set; with nothing selected the list is empty; and
\* selecting one more tag while something is selected adds no document.
C25_SelectedTagsAreAllOf ==
  /\ [](/\ ~SomethingSelected => browsed = <<>>
        /\ Len(selectedTags) > 0 =>
             \A i \in 1..Len(browsed) : CarriesEveryTag(browsed[i], selectedTags)
        /\ (Len(selectedTags) > 0 /\ ~Truthy(searchQuery)
            /\ Len(selectedTypes) = 0) =>
             browsed =
               Sublist(documents,
                       {i \in 1..Len(documents) :
                          CarriesEveryTag(documents[i], selectedTags)}, 1))
  /\ [][(SomethingSelected /\ SelectsOneMoreTag)
          => Elems(browsed') \subseteq Elems(browsed)]_vars

C25_Witness ==
  /\ selectedTags = <<Str_faith, Str_travel>>
  /\ ~Truthy(searchQuery)
  /\ selectedTypes = <<>>
  /\ browsed = <<FilterDocD>>

\* the members of the set kept under 'browse-expanded-folders'
PersistedFolders == Elems(JsonParse(localStorage))

\* C30: once toggleFolder has written it, the set kept under
\* 'browse-expanded-folders' is the in-memory expandedFolders; a step that
\* changes either changes the membership of one path and of no other; and
\* toggling a path twice gives the set back.
C30_ExpandedFoldersPersisted ==
  /\ [](/\ Truthy(localStorage) => PersistedFolders = Elems(expandedFolders)
        /\ \A p \in BrowseFolders :
             Elems(Toggle(Toggle(expandedFolders, p), p)) = Elems(expandedFolders))
  /\ [][(expandedFolders' # expandedFolders \/ localStorage' # localStorage) =>
          /\ Elems(JsonParse(localStorage')) = Elems(expandedFolders')
          /\ \E p \in BrowseFolders :
               /\ (p \in Elems(expandedFolders')) # (p \in Elems(expandedFolders))
               /\ Elems(expandedFolders') \ {p} = Elems(expandedFolders) \ {p}]_vars

C30_Witness ==
  /\ expandedFolders = <<Str_box3, <<"a">>>>
  /\ localStorage = JsonStringify(<<Str_box3, <<"a">>>>)

(***************************************************************************)
(* EasyScript codes and the tags emitted for them                          *)
(***************************************************************************)
\* the codes codePattern matches in text from index i on, in order
RECURSIVE MatchAll(_, _)
MatchAll(text, i) ==
  IF i > Len(text) THEN <<>>
  ELSE LET n == CodeMatchAt(text, i)
       IN IF n = 0 THEN MatchAll(text, i + 1)
          ELSE <<SubSeq(text, i, i + n - 1)>> \o MatchAll(text, i + n)

\* the start codes the code table lists: bold, underline, emphasis and
\* quoted emphasis
RecognizedStartCodes == {m.code : m \in StartCodes} \cup {QuoteStartCode}

SpanOpen == "<span class=\"font-semibold\">"
OpeningTags == OpenTags \cup {SpanOpen}

\* C22: every recognized start code in the text (bold 04, underline 18,
\* emphasis 046, quoted emphasis 43) emits one opening tag, so the output
\* holds as many opening tags as the text holds such codes.
C22_EveryStartCodeOpensATag ==
  tpc = "translated" =>
    LET codes == MatchAll(rawText, 1)
    IN CountIn(translated, OpeningTags)
         = Cardinality({k \in 1..Len(codes) : codes[k] \in RecognizedStartCodes})

\* the text holds exactly two codes: a start code with a tag, then an end code
StartThenEnd(text) ==
  LET codes == MatchAll(text, 1)
  IN /\ Len(codes) = 2
     /\ \E m \in StartCodes : m.code = codes[1]
     /\ codes[2] \in EndCodes

\* C23 as stated: an end code emits the closing tag of its own kind, also
\* when the tag opened before it is of another kind.
C23_EndCodeClosesItsOwnKind ==
  (tpc = "translated" /\ StartThenEnd(rawText)) =>
    CountIn(translated, {CloseTag(EndCodeTag(MatchAll(rawText, 1)[2]))}) = 1

\* the tags of the output, in order
TagsOf(out) ==
  LET isTag(x) == x \in OpeningTags \cup CloseTags IN SelectSeq(out, isTag)

\* the tags due for the codes: a start code opens its tag, an end code closes
\* the most recently opened tag still open, whatever its own kind, and emits
\* nothing when none is open; the tags still open at the end are closed,
\* the most recent first
RECURSIVE TagsDue(_, _)
TagsDue(codes, open) ==
  IF Len(codes) = 0
  THEN [k \in 1..Len(open) |-> CloseTag(open[Len(open) + 1 - k])]
  ELSE IF \E m \in StartCodes : m.code = codes[1]
  THEN LET tag == (CHOOSE m \in StartCodes : m.code = codes[1]).tag
       IN <<OpenTag(tag)>> \o TagsDue(Tail(codes), Append(open, tag))
  ELSE IF codes[1] \in EndCodes /\ Len(open) > 0
  THEN <<CloseTag(open[Len(open)])>>
       \o TagsDue(Tail(codes), SubSeq(open, 1, Len(open) - 1))
  ELSE TagsDue(Tail(codes), open)

\* C23 amended: an end code met while a tag is open emits the closing tag of
\* the most recently opened still-open tag, whatever the kind of the end
\* code; it is the tag of the code's own kind only when that tag is the one
\* on top.
C23_EndCodeClosesMostRecentTag ==
  tpc = "translated" => TagsOf(translated) = TagsDue(MatchAll(rawText, 1), <<>>)

C23_Witness ==
  /\ tpc = "translated"
  /\ rawText = <<"x", "0", "4", "x", "1", "4", "6", "x">>
  /\ translated = <<"x", "<strong>", "x", "</strong>", "x">>

(***************************************************************************)
(* Order of the tag table and of the type table of a collection            *)
(***************************************************************************)
\* the index at which key is first met in keys
FirstSeen(keys, key) ==
  CHOOSE i \in 1..Len(keys) :
    keys[i] = key /\ \A j \in 1..(i - 1) : keys[j] # key

\* the rows are in non-increasing count, rows of equal count in the order
\* their keys are first met in seen
ByCountThenFirstSeen(counts, keys, seen) ==
  \A i, j \in 1..Len(counts) :
    i < j =>
      \/ counts[i] > counts[j]
      \/ /\ counts[i] = counts[j]
         /\ FirstSeen(seen, keys[i]) < FirstSeen(seen, keys[j])

\* the lower-cased tags of a collection in encounter order
LowerTagsSeen(docs) ==
  LET occ == TagOccurrences(docs)
  IN [i \in 1..Len(occ) |-> ToLowerCase(occ[i].tag)]

\* C24: the tag table and the type table of a collection are in
\* non-increasing count, and rows of equal count keep the order in which
\* their tag (lower-cased) or type is first met in the documents.
C24_TablesByCountThenFirstSeen ==
  /\ pc \in {"tagsD", "typesD"} =>
       ByCountThenFirstSeen([i \in 1..Len(topTagsD) |-> topTagsD[i].count],
                            [i \in 1..Len(topTagsD) |-> ToLowerCase(topTagsD[i].tag)],
                            LowerTagsSeen(documents))
  /\ pc = "typesD" =>
       ByCountThenFirstSeen([i \in 1..Len(documentTypes) |-> documentTypes[i].count],
                            [i \in 1..Len(documentTypes) |-> documentTypes[i].type],
                            [i \in 1..Len(documents) |-> documents[i].type])

\* documents tagged [faith], [faith, family], [travel]
C24_Witness ==
  /\ pc = "typesD"
  /\ [i \in 1..Len(documents) |-> documents[i].tags]
       = << <<Str_faith>>, <<Str_faith, Str_family>>, <<Str_travel>> >>
  /\ topTagsD = <<[tag |-> Str_faith, count |-> 2], [tag |-> Str_family, count |-> 1],
                  [tag |-> Str_travel, count |-> 1]>>
  /\ Len(documentTypes) = 2
  /\ documentTypes[1].count = 2

(***************************************************************************)
(* The date range of filterDocuments                                       *)
(***************************************************************************)
\* a comes no later than b in the order of strings: a is a prefix of b, or
\* at the first index where they differ a holds the smaller code unit
ComesNoLater(a, b) ==
  \/ (Len(a) <= Len(b) /\ SubSeq(b, 1, Len(a)) = a)
  \/ \E k \in 1..Len(a) :
       /\ k <= Len(b)
       /\ SubSeq(a, 1, k - 1) = SubSeq(b, 1, k - 1)
       /\ a[k] # b[k]
       /\ CodeUnit(a[k]) < CodeUnit(b[k])

\* start <= date <= end, a null bound being no bound
WithinRange(date, range) ==
  /\ range.start # NoStr => ComesNoLater(range.start, date)
  /\ range.end # NoStr => ComesNoLater(date, range.end)

\* C26: with criteria.dateRange set (each bound null or a date string), of
\* the documents that pass the other criteria a dated one is kept exactly
\* when start <= date <= end as strings, and an undated one is always kept.
C26_DateRangeInclusiveOnStrings ==
  (pc = "filtered" /\ criteria.dateRange # <<>>) =>
    LET others == filterDocuments(documents, [criteria EXCEPT !.dateRange = <<>>])
        range == criteria.dateRange[1]
    IN filtered =
         Sublist(others,
                 {i \in 1..Len(others) :
                    \/ others[i].date = NoStr
                    \/ WithinRange(others[i].date, range)}, 1)

C26_Witness ==
  /\ pc = "filtered"
  /\ documents = <<FilterDocA, FilterDocB, FilterDocC>>
  /\ criteria = [NoCriteria EXCEPT
                   !.dateRange = <<[start |-> <<"1", "9", "9", "0">>,
                                    end |-> <<"1", "9", "9", "0">>]>>]
  /\ filtered = <<FilterDocA, FilterDocB>>

(***************************************************************************)
(* Order of the folder tree                                                *)
(***************************************************************************)
\* the digits a name begins with
RECURSIVE DigitRun(_)
DigitRun(s) ==
  IF Len(s) > 0 /\ s[1] \in Digits THEN <<s[1]>> \o DigitRun(Tail(s)) ELSE <<>>

\* a numeric-aware comparison of names: a run of digits counts as the number
\* it writes, any other character by its collation rank; -1, 0 or 1
RECURSIVE NumericCompare(_, _)
NumericCompare(a, b) ==
  IF Len(a) = 0 /\ Len(b) = 0 THEN 0
  ELSE IF Len(a) = 0 THEN -1
  ELSE IF Len(b) = 0 THEN 1
  ELSE IF a[1] \in Digits /\ b[1] \in Digits
  THEN LET da == DigitRun(a)
           db == DigitRun(b)
           va == ParseInt(da).val
           vb == ParseInt(db).val
       IN IF va < vb THEN -1
          ELSE IF va > vb THEN 1
          ELSE NumericCompare(Substring(a, Len(da)), Substring(b, Len(db)))
  ELSE IF CharRank(a[1]) < CharRank(b[1]) THEN -1
  ELSE IF CharRank(a[1]) > CharRank(b[1]) THEN 1
  ELSE NumericCompare(Tail(a), Tail(b))

\* the list and every children list below it ascend by name
RECURSIVE AscendingByNumericName(_)
AscendingByNumericName(nodes) ==
  /\ \A i \in 1..(Len(nodes) - 1) :
       NumericCompare(nodes[i].name, nodes[i + 1].name) <= 0
  /\ \A i \in 1..Len(nodes) : AscendingByNumericName(nodes[i].children)

\* C27: the top-level list of the folder tree and every children list are in
\* ascending order of name under a numeric-aware comparison, so that 'box-2'
\* comes before 'box-10'.
C27_TreeSortedNumericAware ==
  pc = "tree" => AscendingByNumericName(folderTree)

(***************************************************************************)
(* useArchiveFile: loading while the current path is being fetched         *)
(***************************************************************************)
\* C28: from a change of filePath until the fetch it starts settles, loading
\* is true; hence whenever the viewer shows content (loading false, error
\* null, content non-null) the content is the response for the current
\* filePath.  Stated for the runs in which no two fetches ever overlap, so
\* that no response of an earlier path arrives late.
C28_LoadingUntilCurrentFetchSettles ==
  NoOverlap =>
    /\ InFlight(LastFetch) => loading
    /\ ViewerShowsContent => content = TextOf(filePath)

(***************************************************************************)
(* The year the migration script stores and the year the browser extracts  *)
(***************************************************************************)
\* C29: for every raw date value the year the migration script stores is
\* the year manifestUtils extractYear returns for it (in the same time
\* zone), also for 8- and 4-character values whose year is outside
\* [1900, 2100].
C29_StoredYearIsExtractedYear ==
  \A i \in 1..Len(storedDocs) :
    \E west \in BOOLEAN :
      storedDocs[i].year = extractYear(storedDocs[i].date, west)

====
